---- MODULE Spec2Model ----
(***************************************************************************)
(* A model of the CSS cascade and style resolution code of the apollo      *)
(* browser engine: the css_parser crate's Specificity, CascadeContext and  *)
(* Selector, and the style crate's StyleResolver, Cascade, Inheritance and *)
(* MediaQueryMatcher; and of the parts of the engine around it whose       *)
(* state the cascade relies on: the browser crate's NavigationController,  *)
(* Tab and Window, the html_parser crate's DomTree, the http crate's       *)
(* HttpCache, and the css_parser crate's CssParser and Stylesheet.         *)
(***************************************************************************)
EXTENDS Integers, Sequences, FiniteSets, TLC

VARIABLES
    ctxA, ctxB, wins,          \* two CascadeContexts and self.wins_over(other)
    sel, other,                \* a css_parser Selector under construction, and
                               \* the specificity of the selector built before it
    user_agent_styles,         \* StyleResolver.user_agent_styles
    user_styles,               \* StyleResolver.user_styles
    author_styles,             \* StyleResolver.author_styles
    computed_styles,           \* StyleResolver.computed_styles
    work,                      \* pending compute_element_styles calls
    pc,                        \* position of the resolver's caller
    matcher,                   \* a MediaQueryMatcher
    query_text,                \* the media query string handed to it
    parsed,                    \* <<parse_media_query(query_text)>> once called
    query_matches,             \* <<matches(query)>> once called
    viewport,                  \* StyleResolver.viewport: <<width, height>>
    dom_root,                  \* root_id of the tree handed to compute_styles
    previous,                  \* <<the styles of the pass before>> when that
                               \* pass was on the same tree, else <<>>
    overflow_checks,           \* the build: TRUE when integer overflow panics
                               \* (debug profile), FALSE when it wraps (release)
    panicked,                  \* TRUE once a call has panicked
    call,                      \* the last call made: its name, its arguments, what
                               \* it returned, and the receiver before the call
    nav,                       \* a NavigationController
    tab,                       \* a Tab
    window,                    \* a Window
    dom_tree,                  \* a DomTree
    stylesheet,                \* a css_parser Stylesheet
    cache,                     \* an HttpCache
    clock,                     \* SystemTime::now(), in seconds
    parser                     \* a CssParser and where its parse_stylesheet call stands

vars == <<ctxA, ctxB, wins, sel, other, user_agent_styles, user_styles,
          author_styles, computed_styles, work, pc,
          matcher, query_text, parsed, query_matches,
          viewport, dom_root, previous,
          overflow_checks, panicked, call, nav, tab, window, dom_tree, stylesheet, cache, clock, parser>>

winsVars == <<ctxA, ctxB, wins>>
selVars == <<sel, other>>
resolverVars == <<user_agent_styles, user_styles, author_styles,
                  computed_styles, work, pc, viewport, dom_root, previous>>
queryVars == <<matcher, query_text, parsed, query_matches>>
engineVars == <<overflow_checks, panicked, call, nav, tab, window, dom_tree, stylesheet, cache, clock, parser>>

----------------------------------------------------------------------------
(* Bounds of the model.                                                    *)

\* largest declared order of a cascade layer
MaxLayerOrder == 2
\* largest source order index of a cascade context
MaxSourceOrder == 2
\* most simple selectors added to one selector
MaxParts == 2
\* most combinators added to one selector
MaxCombinators == 1
\* most rules registered with the resolver, over all its stylesheets, and
\* most author stylesheets
MaxRules == 2
\* most rules and media blocks of the stylesheet of a pass over a chosen tree
MaxSheetRules == 2

----------------------------------------------------------------------------
(* std::cmp::Ordering and the derived orderings.                           *)

IntCmp(x, y) == IF x < y THEN "Less" ELSE IF x > y THEN "Greater" ELSE "Equal"

\* #[derive(PartialOrd, Ord)] on a struct: the fields are compared in the
\* order of their declaration and the first unequal field decides.
RECURSIVE LexCmp(_, _)
LexCmp(s, t) ==
    IF s = <<>> \/ t = <<>> THEN IntCmp(Len(s), Len(t))
    ELSE IF Head(s) # Head(t) THEN IntCmp(Head(s), Head(t))
    ELSE LexCmp(Tail(s), Tail(t))

\* a plausible slip: the counts are summed before they are compared
RECURSIVE SumSeq(_)
SumSeq(s) == IF s = <<>> THEN 0 ELSE Head(s) + SumSeq(Tail(s))

SpecificityCmpBySum(s, t) == IntCmp(SumSeq(s), SumSeq(t))

\* Specificity::cmp: a specificity is the tuple of its fields, (a, b, c) in
\* css_parser and (a, b, c, d) as the style crate writes it.
SpecificityCmp(s, t) == LexCmp(s, t)

\* CascadeOrigin: a fieldless enum ordered by discriminant.
UserAgent == 0
User == 1
Author == 2
AuthorImportant == 3
UserImportant == 4

CascadeOrigins == {UserAgent, User, Author, AuthorImportant, UserImportant}

OriginCmp(o1, o2) == IntCmp(o1, o2)

\* The layer names of the model, in the byte order Rust compares Strings by.
LayerNames == <<"base", "theme">>

StrRank(name) == CHOOSE i \in 1..Len(LayerNames) : LayerNames[i] = name

StrCmp(x, y) == IntCmp(StrRank(x), StrRank(y))

\* CascadeLayer derives Ord with the fields (name, order): the name is
\* compared first, the order only between layers of one name.
CascadeLayerCmp(l1, l2) ==
    IF l1.name # l2.name THEN StrCmp(l1.name, l2.name)
    ELSE IntCmp(l1.order, l2.order)

\* Option<CascadeLayer>
NoLayer == [some |-> FALSE, name |-> "base", order |-> 0]
SomeLayer(name, order) == [some |-> TRUE, name |-> name, order |-> order]

Layers == {NoLayer} \cup
          {SomeLayer(LayerNames[i], o) : i \in 1..Len(LayerNames), o \in 1..MaxLayerOrder}

\* The specificities of div, .class, #id and div.class
\* (test_specificity_comparison), and Specificity::new(0, 0, 1000).
InputSpecificities ==
    {<<0, 0, 1>>, <<0, 1, 0>>, <<1, 0, 0>>, <<0, 1, 1>>, <<0, 0, 1000>>}

\* Specificity::numeric_value: a u64 that three u32 counts cannot overflow
numeric_value(s) == s[1] * 1000000 + s[2] * 1000 + s[3]

\* CascadeContext::new followed by an optional with_layer
CascadeContexts ==
    [origin : CascadeOrigins, layer : Layers,
     specificity : InputSpecificities, source_order : 0..MaxSourceOrder]

\* a comparator that looks at the specificity before the origin
wins_over_specificity_first(self, o) ==
    IF SpecificityCmp(self.specificity, o.specificity) = "Greater" THEN TRUE
    ELSE IF SpecificityCmp(self.specificity, o.specificity) = "Less" THEN FALSE
    ELSE IF OriginCmp(self.origin, o.origin) # "Equal"
         THEN OriginCmp(self.origin, o.origin) = "Greater"
    ELSE self.source_order > o.source_order

\* a comparator without the branch in which an unlayered context loses to a
\* layered one: the specificity decides there
wins_over_without_unlayered_loss(self, o) ==
    IF OriginCmp(self.origin, o.origin) # "Equal"
    THEN OriginCmp(self.origin, o.origin) = "Greater"
    ELSE IF self.layer.some /\ o.layer.some
            /\ CascadeLayerCmp(self.layer, o.layer) # "Equal"
    THEN CascadeLayerCmp(self.layer, o.layer) = "Greater"
    ELSE IF self.layer.some /\ ~o.layer.some THEN TRUE
    ELSE IF SpecificityCmp(self.specificity, o.specificity) # "Equal"
    THEN SpecificityCmp(self.specificity, o.specificity) = "Greater"
    ELSE self.source_order > o.source_order

\* CascadeContext::wins_over
wins_over(self, o) ==
    IF OriginCmp(self.origin, o.origin) = "Greater" THEN TRUE
    ELSE IF OriginCmp(self.origin, o.origin) = "Less" THEN FALSE
    ELSE IF self.layer.some /\ o.layer.some
            /\ CascadeLayerCmp(self.layer, o.layer) = "Greater" THEN TRUE
    ELSE IF self.layer.some /\ o.layer.some
            /\ CascadeLayerCmp(self.layer, o.layer) = "Less" THEN FALSE
    ELSE IF self.layer.some /\ ~o.layer.some THEN TRUE
    ELSE IF ~self.layer.some /\ o.layer.some THEN FALSE
    ELSE IF SpecificityCmp(self.specificity, o.specificity) = "Greater" THEN TRUE
    ELSE IF SpecificityCmp(self.specificity, o.specificity) = "Less" THEN FALSE
    ELSE self.source_order > o.source_order

----------------------------------------------------------------------------
(* Strings are sequences of characters.                                    *)

\* str::to_lowercase on the characters the model uses
LowerChar(ch) ==
    CASE ch = "D" -> "d" [] ch = "I" -> "i" [] ch = "V" -> "v"
      [] ch = "L" -> "l" [] ch = "U" -> "u" [] OTHER -> ch

to_lowercase(str) == [i \in 1..Len(str) |-> LowerChar(str[i])]

is_whitespace(ch) == ch = " "

\* str::split_whitespace: the maximal runs of non-whitespace characters
RECURSIVE SplitFrom(_, _, _)
SplitFrom(str, i, word) ==
    IF i > Len(str) THEN (IF word = <<>> THEN <<>> ELSE <<word>>)
    ELSE IF is_whitespace(str[i])
         THEN (IF word = <<>> THEN <<>> ELSE <<word>>) \o SplitFrom(str, i + 1, <<>>)
    ELSE SplitFrom(str, i + 1, Append(word, str[i]))

split_whitespace(str) == SplitFrom(str, 1, <<>>)

starts_with(str, prefix) ==
    Len(prefix) <= Len(str) /\ SubSeq(str, 1, Len(prefix)) = prefix

ends_with(str, suffix) ==
    Len(suffix) <= Len(str)
    /\ SubSeq(str, Len(str) - Len(suffix) + 1, Len(str)) = suffix

contains(str, pat) ==
    \E i \in 1..(Len(str) + 1) :
        i + Len(pat) - 1 <= Len(str) /\ SubSeq(str, i, i + Len(pat) - 1) = pat

InSeq(x, seq) == \E i \in 1..Len(seq) : seq[i] = x

----------------------------------------------------------------------------
(* The DOM tree the selectors are matched against (html_parser::dom).      *)
(*   5: the document node                                                  *)
(*   0: <ul>                                                               *)
(*   1:   <li id="x" class="c">                                            *)
(*   2:   <DIV class="c m">                                                *)
(*   3:     <li class="c">                                                 *)
(*   4:   a text node                                                      *)

\* Option<T>: <<>> is None, <<v>> is Some(v)
None == <<>>
Some(v) == <<v>>

\* Node::element(tag) with its Element's attributes set, linked by append_child
ElementNode(tag, attrs, parent, children) ==
    [is_element |-> TRUE, tag_name |-> tag, attributes |-> attrs,
     parent |-> parent, children |-> children]

\* Node::text
TextNode(parent) ==
    [is_element |-> FALSE, tag_name |-> <<>>, attributes |-> <<>>,
     parent |-> parent, children |-> <<>>]

\* Node::document
DocumentNode(children) ==
    [is_element |-> FALSE, tag_name |-> <<>>, attributes |-> <<>>,
     parent |-> None, children |-> children]

NoAttributes == [n \in {} |-> <<>>]

DomNodes ==
    [id \in 0..5 |->
        CASE id = 0 -> ElementNode(<<"u", "l">>, NoAttributes, Some(5), <<1, 2, 4>>)
          [] id = 1 -> ElementNode(<<"l", "i">>,
                           [n \in {"id", "class"} |->
                               IF n = "id" THEN <<"x">> ELSE <<"c">>],
                           Some(0), <<>>)
          [] id = 2 -> ElementNode(<<"D", "I", "V">>,
                           [n \in {"class"} |-> <<"c", " ", "m">>],
                           Some(0), <<3>>)
          [] id = 3 -> ElementNode(<<"l", "i">>,
                           [n \in {"class"} |-> <<"c">>], Some(2), <<>>)
          [] id = 4 -> TextNode(Some(0))
          [] OTHER -> DocumentNode(<<0>>)]

\* DomTree.root_id
RootId == Some(0)

\* a get_node that finds elements only
get_node_of_elements(id) ==
    IF id \in DOMAIN DomNodes /\ DomNodes[id].is_element
    THEN Some(DomNodes[id]) ELSE None

\* DomTree::get_node
get_node(id) == IF id \in DOMAIN DomNodes THEN Some(DomNodes[id]) ELSE None

ElementIds == {id \in DOMAIN DomNodes : DomNodes[id].is_element}

\* Element::get_attribute
get_attribute(element, name) ==
    IF name \in DOMAIN element.attributes
    THEN Some(element.attributes[name]) ELSE None

\* Element::get_id
get_id(element) == get_attribute(element, "id")

\* Element::get_class_list
get_class_list(element) ==
    IF get_attribute(element, "class") = None THEN <<>>
    ELSE split_whitespace(get_attribute(element, "class")[1])

----------------------------------------------------------------------------
(* css_parser::selector: Selector, SimpleSelector, Combinator.             *)

Universal == [kind |-> "Universal"]
Type(name) == [kind |-> "Type", name |-> name]
Id(name) == [kind |-> "Id", name |-> name]
Class(name) == [kind |-> "Class", name |-> name]
Attribute(name, operator, value) ==
    [kind |-> "Attribute", name |-> name, operator |-> operator, value |-> value]
PseudoClass(p) == [kind |-> "PseudoClass", pseudo |-> p]
PseudoElement(p) == [kind |-> "PseudoElement", pseudo |-> p]

Combinators == {"Descendant", "Child", "AdjacentSibling", "GeneralSibling"}

\* The simple selectors the model adds to a selector.
SimpleSelectors ==
    {Universal, Type(<<"u", "l">>), Type(<<"l", "i">>), Type(<<"d", "i", "v">>),
     Id(<<"x">>), Class(<<"c">>), Attribute("class", "Exists", None),
     Attribute("lang", "DashMatch", Some(<<"e", "n">>)),
     PseudoClass("Hover"), PseudoElement("Before")}

\* SelectorMatchContext::default() and the same context for a hovered element
DefaultContext ==
    [is_hovered |-> FALSE, is_active |-> FALSE, is_focused |-> FALSE,
     is_visited |-> FALSE, is_first_child |-> FALSE, is_last_child |-> FALSE,
     has_no_children |-> TRUE, is_disabled |-> FALSE, is_checked |-> FALSE,
     is_valid |-> TRUE, is_required |-> FALSE, is_read_only |-> FALSE]

MatchContexts == {DefaultContext, [DefaultContext EXCEPT !.is_hovered = TRUE]}

CountKind(parts, kinds) == Cardinality({i \in 1..Len(parts) : parts[i].kind \in kinds})

\* an update that forgets the attribute selectors
update_specificity_no_attributes(parts) ==
    <<CountKind(parts, {"Id"}),
      CountKind(parts, {"Class", "PseudoClass"}),
      CountKind(parts, {"Type", "PseudoElement"})>>

\* Selector::update_specificity: one pass over the parts with three counters
RECURSIVE CountParts(_, _)
CountParts(parts, acc) ==
    IF parts = <<>> THEN acc
    ELSE CountParts(Tail(parts),
            CASE Head(parts).kind = "Id" -> <<acc[1] + 1, acc[2], acc[3]>>
              [] Head(parts).kind \in {"Class", "Attribute", "PseudoClass"} ->
                    <<acc[1], acc[2] + 1, acc[3]>>
              [] Head(parts).kind \in {"Type", "PseudoElement"} ->
                    <<acc[1], acc[2], acc[3] + 1>>
              [] OTHER -> acc)

update_specificity(parts) == CountParts(parts, <<0, 0, 0>>)

\* Selector::new
NewSelector == [parts |-> <<>>, combinators |-> <<>>, specificity |-> <<0, 0, 0>>]

\* Selector::attribute_matches
attribute_matches(element, name, operator, value) ==
    IF get_attribute(element, name) = None THEN operator = "Exists"
    ELSE LET element_value == get_attribute(element, name)[1] IN
         CASE operator = "Exists" -> TRUE
           [] operator = "Equals" ->
                element_value = (IF value = None THEN <<>> ELSE value[1])
           [] operator = "Includes" ->
                value # None /\ InSeq(value[1], split_whitespace(element_value))
           [] operator = "DashMatch" ->
                value # None /\ (element_value = value[1]
                                 \/ starts_with(element_value, Append(value[1], "-")))
           [] operator = "PrefixMatch" ->
                value # None /\ starts_with(element_value, value[1])
           [] operator = "SuffixMatch" ->
                value # None /\ ends_with(element_value, value[1])
           [] operator = "SubstringMatch" ->
                value # None /\ contains(element_value, value[1])
           [] OTHER -> FALSE

\* Selector::pseudo_class_matches
pseudo_class_matches(pseudo, element, context) ==
    CASE pseudo = "Hover" -> context.is_hovered
      [] pseudo = "Active" -> context.is_active
      [] pseudo = "Focus" -> context.is_focused
      [] pseudo = "Visited" -> context.is_visited
      [] pseudo = "Link" ->
            to_lowercase(element.tag_name) = <<"a">>
            /\ get_attribute(element, "href") # None
      [] pseudo = "FirstChild" -> context.is_first_child
      [] pseudo = "LastChild" -> context.is_last_child
      [] pseudo = "OnlyChild" -> context.is_first_child /\ context.is_last_child
      [] pseudo = "Empty" -> context.has_no_children
      [] pseudo = "Root" -> to_lowercase(element.tag_name) = <<"h", "t", "m", "l">>
      [] pseudo = "Enabled" -> ~context.is_disabled
      [] pseudo = "Disabled" -> context.is_disabled
      [] pseudo = "Checked" -> context.is_checked
      [] pseudo = "Valid" -> context.is_valid
      [] pseudo = "Invalid" -> ~context.is_valid
      [] pseudo = "Required" -> context.is_required
      [] pseudo = "Optional" -> ~context.is_required
      [] pseudo = "ReadOnly" -> context.is_read_only
      [] pseudo = "ReadWrite" -> ~context.is_read_only
      [] OTHER -> FALSE

\* Selector::simple_selector_matches
css_simple_selector_matches(part, element, context) ==
    CASE part.kind = "Universal" -> TRUE
      [] part.kind = "Type" ->
            to_lowercase(element.tag_name) = to_lowercase(part.name)
      [] part.kind = "Id" -> get_id(element) = Some(part.name)
      [] part.kind = "Class" -> InSeq(part.name, get_class_list(element))
      [] part.kind = "Attribute" ->
            attribute_matches(element, part.name, part.operator, part.value)
      [] part.kind = "PseudoClass" ->
            pseudo_class_matches(part.pseudo, element, context)
      [] OTHER -> FALSE

\* Selector::matches_element: the last part decides
matches_element(selector, element, context) ==
    IF selector.parts = <<>> THEN FALSE
    ELSE css_simple_selector_matches(
            selector.parts[Len(selector.parts)], element, context)

----------------------------------------------------------------------------
(* The selectors as the style crate reads them: Selector::Simple,          *)
(* Selector::Compound and Selector::Complex over SimpleSelector structs.   *)

StyleSimple(tag, id, classes) ==
    [tag_name |-> tag, id |-> id, classes |-> classes, attributes |-> <<>>,
     pseudo_classes |-> <<>>, pseudo_elements |-> <<>>]

SimpleSel(s) == [variant |-> "Simple", list |-> <<s>>]
CompoundSel(list) == [variant |-> "Compound", list |-> list]
ComplexSel(list) == [variant |-> "Complex", list |-> list]

\* li, .c, #x, ul > li and div.c
SelLi == SimpleSel(StyleSimple(Some(<<"l", "i">>), None, <<>>))
SelC == SimpleSel(StyleSimple(None, None, <<<<"c">>>>))
SelX == SimpleSel(StyleSimple(None, Some(<<"x">>), <<>>))
SelUlLi == ComplexSel(<<StyleSimple(Some(<<"u", "l">>), None, <<>>),
                        StyleSimple(Some(<<"l", "i">>), None, <<>>)>>)
SelDivC == CompoundSel(<<StyleSimple(Some(<<"d", "i", "v">>), None, <<>>),
                         StyleSimple(None, None, <<<<"c">>>>)>>)

\* `!element_attr.len() == attr_selector.value.len()`: the bitwise complement
\* of a usize length equals another length only for a string of at least
\* 2^63 bytes, which no element attribute is.
complement_len_equals(element_attr, value) == FALSE

\* StyleResolver::simple_selector_matches (its Result is always Ok)
simple_selector_matches(selector, element) ==
    /\ selector.tag_name # None =>
          to_lowercase(element.tag_name) = to_lowercase(selector.tag_name[1])
    /\ selector.id # None =>
          /\ get_attribute(element, "id") # None
          /\ get_attribute(element, "id")[1] = selector.id[1]
    /\ \A i \in 1..Len(selector.classes) :
          /\ get_attribute(element, "class") # None
          /\ InSeq(selector.classes[i],
                   split_whitespace(get_attribute(element, "class")[1]))
    /\ \A i \in 1..Len(selector.attributes) :
          LET a == selector.attributes[i] IN
          /\ get_attribute(element, a.name) # None
          /\ LET element_attr == get_attribute(element, a.name)[1] IN
             CASE a.operator = Some("Equals") -> element_attr = a.value
               [] a.operator = Some("Includes") ->
                    InSeq(a.value, split_whitespace(element_attr))
               [] a.operator = Some("DashMatch") ->
                    ~(~starts_with(element_attr, a.value)
                      \/ (complement_len_equals(element_attr, a.value)
                          /\ ~is_whitespace(element_attr[Len(a.value) + 1])))
               [] a.operator = Some("PrefixMatch") -> starts_with(element_attr, a.value)
               [] a.operator = Some("SuffixMatch") -> ends_with(element_attr, a.value)
               [] a.operator = Some("SubstringMatch") -> contains(element_attr, a.value)
               [] OTHER -> element_attr # <<>>

\* StyleResolver::selector_matches
selector_matches(selector, element) ==
    CASE selector.variant = "Simple" ->
            simple_selector_matches(selector.list[1], element)
      [] selector.variant = "Compound" ->
            \A i \in 1..Len(selector.list) :
                simple_selector_matches(selector.list[i], element)
      [] OTHER ->
            IF selector.list = <<>> THEN FALSE
            ELSE simple_selector_matches(selector.list[Len(selector.list)], element)

\* the Add impl the style crate uses on specificities: field by field
SpecificityAdd(s, t) == [i \in 1..Len(s) |-> s[i] + t[i]]

\* StyleResolver::calculate_simple_selector_specificity
calculate_simple_selector_specificity(selector) ==
    <<0,
      IF selector.id # None THEN 1 ELSE 0,
      Len(selector.classes) + Len(selector.attributes) + Len(selector.pseudo_classes),
      Len(selector.pseudo_elements) + (IF selector.tag_name # None THEN 1 ELSE 0)>>

RECURSIVE SumSpecificities(_)
SumSpecificities(list) ==
    IF list = <<>> THEN <<0, 0, 0, 0>>
    ELSE SpecificityAdd(calculate_simple_selector_specificity(Head(list)),
                        SumSpecificities(Tail(list)))

\* StyleResolver::calculate_specificity
calculate_specificity(selector) ==
    IF selector.variant = "Simple"
    THEN calculate_simple_selector_specificity(selector.list[1])
    ELSE SumSpecificities(selector.list)

----------------------------------------------------------------------------
(* Stylesheets, rules and declarations of the resolver.                    *)

\* StyleOrigin
StyleOrigins == {"UserAgent", "User", "Author"}

\* A style rule: its selector list and its declarations.  Every declaration
\* of the model sets the color property; its value names the place of the
\* rule (origin, stylesheet, rule), so that no two declarations share a value
\* and the computed value tells which declaration won.
Declaration(value, important) ==
    [property |-> "color", value |-> value, important |-> important]

\* a declaration of any of the modelled properties: color, font-size (both
\* inherited) and display (not inherited)
PropertyDeclaration(property, value, important) ==
    [property |-> property, value |-> value, important |-> important]

\* Length::Px and Length::Percentage, written as CSS writes them: the values
\* of all properties are strings, as those of color and display are
Px(v) == ToString(v) \o "px"
Percentage(v) == ToString(v) \o "%"

StyleRule(selectors, declarations) ==
    [selectors |-> selectors, declarations |-> declarations]

\* The selector lists of the model's rules.
\*   .c        matches nodes 1, 2, 3 with specificity (0,0,1,0)
\*   ul > li   matches nodes 1, 3 with specificity (0,0,0,2)
\*   div.c     matches node 2 with specificity (0,0,1,1)
\*   #x, li    matches node 1 by #x (0,1,0,0) and node 3 by li (0,0,0,1)
\*   li, #x    matches nodes 1 and 3 by li (0,0,0,1)
SelectorLists ==
    {<<SelC>>, <<SelUlLi>>, <<SelDivC>>, <<SelX, SelLi>>, <<SelLi, SelX>>}

\* What a rule is made from: a selector list and the !important flag of its
\* declaration.
RuleInputs == [selectors : SelectorLists, important : BOOLEAN]

\* ComputedStyle::new: the initial values
InitialStyle == [color |-> "rgb(0,0,0)", display |-> "inline", font_size |-> Px(16)]

\* an inheritance that copies every field of the parent's style
apply_inheritance_of_all(child_style, parent_style) == parent_style

\* Inheritance::apply_inheritance: font-size and color are in the
\* inheritable set, display is not
apply_inheritance(child_style, parent_style) ==
    [child_style EXCEPT !.font_size = parent_style.font_size,
                        !.color = parent_style.color]

\* an apply_declaration in which display, like a shorthand, also sets the
\* color field
apply_declaration_sharing_a_field(computed_style, declaration) ==
    CASE declaration.property = "color" ->
            [computed_style EXCEPT !.color = declaration.value]
      [] declaration.property = "display" ->
            [computed_style EXCEPT !.display = declaration.value,
                                   !.color = "rgb(0,0,0)"]
      [] declaration.property = "font-size" ->
            [computed_style EXCEPT !.font_size = declaration.value]
      [] OTHER -> computed_style

\* StyleResolver::apply_declaration
apply_declaration(computed_style, declaration) ==
    CASE declaration.property = "color" ->
            [computed_style EXCEPT !.color = declaration.value]
      [] declaration.property = "display" ->
            [computed_style EXCEPT !.display = declaration.value]
      [] declaration.property = "font-size" ->
            [computed_style EXCEPT !.font_size = declaration.value]
      [] OTHER -> computed_style

----------------------------------------------------------------------------
(* StyleResolver::get_applicable_rules and Cascade::apply_cascade.         *)

ApplicableRule(rule, specificity, origin) ==
    [rule |-> rule, specificity |-> specificity, origin |-> origin]

\* the index of the first selector of the list that matches, 0 if none does
RECURSIVE FirstMatch(_, _, _)
FirstMatch(selectors, element, i) ==
    IF i > Len(selectors) THEN 0
    ELSE IF selector_matches(selectors[i], element) THEN i
    ELSE FirstMatch(selectors, element, i + 1)

RECURSIVE MaxSpecificity(_)
MaxSpecificity(selectors) ==
    IF selectors = <<>> THEN <<0, 0, 0, 0>>
    ELSE LET rest == MaxSpecificity(Tail(selectors))
             first == calculate_specificity(Head(selectors))
         IN IF SpecificityCmp(first, rest) = "Greater" THEN first ELSE rest

\* SpecificityUtils::calculate_rule_specificity, the maximum over the list,
\* in the place of the matched selector's specificity
matched_specificity_max_of_list(rule, element) == MaxSpecificity(rule.selectors)

\* The specificity add_rules_from_stylesheet gives a matching rule: that of
\* the selector at which its loop over the list breaks.
matched_specificity(rule, element) ==
    calculate_specificity(rule.selectors[FirstMatch(rule.selectors, element, 1)])

\* a rule of a stylesheet that is not a style rule: a media block, with its
\* query and the style rules in it
MediaRule(query, rules) == [media |-> query, rules |-> rules]

\* `if let Rule::StyleRule(style_rule) = rule`
IsStyleRule(rule) == "selectors" \in DOMAIN rule

\* the rules of a stylesheet with the rules of its media blocks put in the
\* place of the blocks, whatever their queries are
RECURSIVE Flatten(_)
Flatten(rules) ==
    IF rules = <<>> THEN <<>>
    ELSE (IF IsStyleRule(Head(rules)) THEN <<Head(rules)>> ELSE Head(rules).rules)
         \o Flatten(Tail(rules))

\* the style rules that match the element, each with the specificity of the
\* first selector of its list that matches
RECURSIVE MatchingStyleRules(_, _, _)
MatchingStyleRules(rules, element, origin) ==
    IF rules = <<>> THEN <<>>
    ELSE (IF IsStyleRule(Head(rules))
             /\ FirstMatch(Head(rules).selectors, element, 1) # 0
          THEN <<ApplicableRule(Head(rules),
                                matched_specificity(Head(rules), element), origin)>>
          ELSE <<>>)
         \o MatchingStyleRules(Tail(rules), element, origin)

\* an add_rules_from_stylesheet that takes the rules of media blocks too
add_rules_from_stylesheet_with_media_blocks(rules, element, origin) ==
    MatchingStyleRules(Flatten(rules), element, origin)

\* StyleResolver::add_rules_from_stylesheet
add_rules_from_stylesheet(rules, element, origin) ==
    MatchingStyleRules(rules, element, origin)

RECURSIVE AuthorRules(_, _)
AuthorRules(sheets, element) ==
    IF sheets = <<>> THEN <<>>
    ELSE add_rules_from_stylesheet(Head(sheets), element, "Author")
         \o AuthorRules(Tail(sheets), element)

\* slice::sort_by is stable: an element goes behind every element that does
\* not compare greater than it
RECURSIVE InsertBySpecificity(_, _)
InsertBySpecificity(sorted, x) ==
    IF sorted = <<>> THEN <<x>>
    ELSE IF SpecificityCmp(Head(sorted).specificity, x.specificity) = "Greater"
         THEN <<x>> \o sorted
    ELSE <<Head(sorted)>> \o InsertBySpecificity(Tail(sorted), x)

RECURSIVE SortFrom(_, _)
SortFrom(sorted, rest) ==
    IF rest = <<>> THEN sorted
    ELSE SortFrom(InsertBySpecificity(sorted, Head(rest)), Tail(rest))

sort_by_specificity(rules) == SortFrom(<<>>, rules)

\* StyleResolver::get_applicable_rules for the node `id` of the tree
get_applicable_rules(ua, user, author, id) ==
    IF ~DomNodes[id].is_element THEN <<>>
    ELSE sort_by_specificity(
            add_rules_from_stylesheet(ua, DomNodes[id], "UserAgent")
            \o add_rules_from_stylesheet(user, DomNodes[id], "User")
            \o AuthorRules(author, DomNodes[id]))

\* HashMap::insert
MapInsert(map, key, value) ==
    [k \in DOMAIN map \cup {key} |-> IF k = key THEN value ELSE map[k]]

EmptyMap == [k \in {} |-> <<>>]

\* Cascade::get_declaration_specificity
get_declaration_specificity(declaration) == <<0, 0, 0, 0>>

\* the body of apply_cascade's inner loop for one declaration
CascadeDeclaration(winning, declaration) ==
    IF declaration.property \in DOMAIN winning
    THEN LET existing == get_declaration_specificity(winning[declaration.property])
             new == get_declaration_specificity(declaration)
         IN IF SpecificityCmp(new, existing) = "Greater"
            THEN MapInsert(winning, declaration.property, declaration)
            ELSE IF SpecificityCmp(new, existing) = "Equal"
            THEN MapInsert(winning, declaration.property, declaration)
            ELSE winning
    ELSE MapInsert(winning, declaration.property, declaration)

RECURSIVE CascadeDeclarations(_, _)
CascadeDeclarations(winning, declarations) ==
    IF declarations = <<>> THEN winning
    ELSE CascadeDeclarations(CascadeDeclaration(winning, Head(declarations)),
                             Tail(declarations))

RECURSIVE CascadeRules(_, _)
CascadeRules(winning, rules) ==
    IF rules = <<>> THEN winning
    ELSE CascadeRules(CascadeDeclarations(winning, Head(rules).rule.declarations),
                      Tail(rules))

\* Cascade::apply_cascade: the map is cleared, then filled rule by rule
apply_cascade(rules) == CascadeRules(EmptyMap, rules)

\* `winning_declarations.values().cloned().collect()`: the declarations of
\* the map, in any of the orders a HashMap may iterate in
RECURSIVE winning_values(_)
winning_values(winning) ==
    IF DOMAIN winning = {} THEN {<<>>}
    ELSE UNION {{<<winning[k]>> \o rest :
                    rest \in winning_values([j \in DOMAIN winning \ {k} |-> winning[j]])} :
                k \in DOMAIN winning}

\* StyleResolver::apply_declarations
RECURSIVE apply_declarations(_, _)
apply_declarations(computed_style, declarations) ==
    IF declarations = <<>> THEN computed_style
    ELSE apply_declarations(apply_declaration(computed_style, Head(declarations)),
                            Tail(declarations))

\* The styles compute_element_styles may compute for node `id`: the cascade
\* over the applicable rules, a new ComputedStyle, the inherited values of
\* the parent's style if there is one, then the winning declarations in the
\* order the map hands them over.
ElementStyles(ua, user, author, id, parent_style) ==
    LET winning == apply_cascade(get_applicable_rules(ua, user, author, id))
        inherited == IF parent_style = None THEN InitialStyle
                     ELSE apply_inheritance(InitialStyle, parent_style[1])
    IN {apply_declarations(inherited, declarations) :
            declarations \in winning_values(winning)}

----------------------------------------------------------------------------
(* MediaQueryMatcher: the media environment, the parsing of a media query  *)
(* string and its evaluation.  Strings are sequences of characters.        *)

\* MediaQueryMatcher::new, with the fields the modelled features read
NewMatcher ==
    [current_media |-> "Screen", viewport_width |-> 1024,
     viewport_height |-> 768, orientation |-> "Landscape"]

\* MediaQueryMatcher::set_viewport
set_viewport(m, width, height) ==
    [m EXCEPT !.viewport_width = width, !.viewport_height = height,
              !.orientation = IF width > height THEN "Landscape" ELSE "Portrait"]

\* MediaQueryMatcher::set_media_type
set_media_type(m, media_type) == [m EXCEPT !.current_media = media_type]

\* MediaFeature, for the features of the model's queries
MediaFeature(kind, value) == [kind |-> kind, value |-> value]

\* MediaQuery
MediaQuery(media_type, features, negated) ==
    [media_type |-> media_type, features |-> features, negated |-> negated]

\* MediaQueryMatcher::matches_feature; the lengths of the model are whole
\* numbers, for which |a - b| < f32::EPSILON is a = b
matches_feature(m, feature) ==
    CASE feature.kind = "Width" -> m.viewport_width = feature.value
      [] feature.kind = "MinWidth" -> m.viewport_width >= feature.value
      [] feature.kind = "MaxWidth" -> m.viewport_width <= feature.value
      [] feature.kind = "Height" -> m.viewport_height = feature.value
      [] feature.kind = "MinHeight" -> m.viewport_height >= feature.value
      [] feature.kind = "MaxHeight" -> m.viewport_height <= feature.value
      [] feature.kind = "Orientation" -> m.orientation = feature.value

\* MediaQueryMatcher::matches
matches(m, media_query) ==
    LET media == \/ media_query.media_type = None
                 \/ ~(media_query.media_type[1] # m.current_media
                      /\ media_query.media_type[1] # "All")
        features == \A i \in 1..Len(media_query.features) :
                        matches_feature(m, media_query.features[i])
        result == media /\ features
    IN IF media_query.negated THEN ~result ELSE result

\* str::trim
RECURSIVE trim_start(_)
trim_start(str) ==
    IF str # <<>> /\ is_whitespace(Head(str)) THEN trim_start(Tail(str)) ELSE str

RECURSIVE trim_end(_)
trim_end(str) ==
    IF str # <<>> /\ is_whitespace(str[Len(str)])
    THEN trim_end(SubSeq(str, 1, Len(str) - 1)) ELSE str

trim(str) == trim_end(trim_start(str))

\* &str[from..], from counted from 0
slice_from(str, from) == SubSeq(str, from + 1, Len(str))

\* str::split: the pieces between the occurrences of a separator; the empty
\* string gives one empty piece
RECURSIVE SplitOn(_, _, _)
SplitOn(str, sep, piece) ==
    IF str = <<>> THEN <<piece>>
    ELSE IF starts_with(str, sep)
         THEN <<piece>> \o SplitOn(slice_from(str, Len(sep)), sep, <<>>)
         ELSE SplitOn(Tail(str), sep, Append(piece, Head(str)))

split(str, sep) == SplitOn(str, sep, <<>>)

Digits == <<"0", "1", "2", "3", "4", "5", "6", "7", "8", "9">>

DigitValue(ch) == (CHOOSE i \in 1..10 : Digits[i] = ch) - 1

RECURSIVE DecimalValue(_, _)
DecimalValue(str, acc) ==
    IF str = <<>> THEN acc
    ELSE DecimalValue(Tail(str), 10 * acc + DigitValue(Head(str)))

\* str::parse::<f32> on the strings of the model: a string of decimal digits
\* is its value, and a string with a blank, a letter or a parenthesis in it,
\* or the empty string, is an error
parse_f32(str) ==
    IF str # <<>> /\ \A i \in 1..Len(str) : InSeq(str[i], Digits)
    THEN Some(DecimalValue(str, 0)) ELSE None

\* the string literals of parse_media_query and parse_feature
\* the string literals of parse_media_query and parse_feature
Str ==
    [all |-> <<"a", "l", "l">>,
     screen |-> <<"s", "c", "r", "e", "e", "n">>,
     print |-> <<"p", "r", "i", "n", "t">>,
     speech |-> <<"s", "p", "e", "e", "c", "h">>,
     not |-> <<"n", "o", "t", " ">>,
     and |-> <<" ", "a", "n", "d", " ">>,
     width |-> <<"w", "i", "d", "t", "h", ":">>,
     min_width |-> <<"m", "i", "n", "-", "w", "i", "d", "t", "h", ":">>,
     max_width |-> <<"m", "a", "x", "-", "w", "i", "d", "t", "h", ":">>,
     height |-> <<"h", "e", "i", "g", "h", "t", ":">>,
     min_height |-> <<"m", "i", "n", "-", "h", "e", "i", "g", "h", "t", ":">>,
     max_height |-> <<"m", "a", "x", "-", "h", "e", "i", "g", "h", "t", ":">>,
     orientation |-> <<"o", "r", "i", "e", "n", "t", "a", "t", "i", "o", "n", ":">>,
     portrait |-> <<"p", "o", "r", "t", "r", "a", "i", "t">>,
     landscape |-> <<"l", "a", "n", "d", "s", "c", "a", "p", "e">>]

\* the media types parse_media_query knows
MediaTypeOf(word) ==
    CASE word = Str.all -> Some("All")
      [] word = Str.screen -> Some("Screen")
      [] word = Str.print -> Some("Print")
      [] word = Str.speech -> Some("Speech")
      [] OTHER -> None

\* a length feature: Some(feature) if the text behind the name parses
LengthFeature(kind, feature, name) ==
    LET value == parse_f32(slice_from(feature, Len(name)))
    IN IF value # None THEN Some(MediaFeature(kind, value[1])) ELSE None

\* MediaQueryMatcher::parse_feature, for the features of the model's queries
parse_feature(feature) ==
    IF starts_with(feature, Str.width) THEN
        LengthFeature("Width", feature, Str.width)
    ELSE IF starts_with(feature, Str.min_width) THEN
        LengthFeature("MinWidth", feature, Str.min_width)
    ELSE IF starts_with(feature, Str.max_width) THEN
        LengthFeature("MaxWidth", feature, Str.max_width)
    ELSE IF starts_with(feature, Str.height) THEN
        LengthFeature("Height", feature, Str.height)
    ELSE IF starts_with(feature, Str.min_height) THEN
        LengthFeature("MinHeight", feature, Str.min_height)
    ELSE IF starts_with(feature, Str.max_height) THEN
        LengthFeature("MaxHeight", feature, Str.max_height)
    ELSE IF starts_with(feature, Str.orientation) THEN
        LET orientation == trim(slice_from(feature, Len(Str.orientation)))
        IN IF orientation = Str.portrait THEN
               Some(MediaFeature("Orientation", "Portrait"))
           ELSE IF orientation = Str.landscape THEN
               Some(MediaFeature("Orientation", "Landscape"))
           ELSE None
    ELSE None

\* the features of the parts of a query from part i on, those that
\* parse_feature gives no feature for left out
RECURSIVE ParseFeatures(_, _)
ParseFeatures(parts, i) ==
    IF i > Len(parts) THEN <<>>
    ELSE parse_feature(trim(parts[i])) \o ParseFeatures(parts, i + 1)

Ok(v) == [ok |-> TRUE, value |-> v]
Err(e) == [ok |-> FALSE, error |-> e]

\* MediaQueryMatcher::parse_media_query
parse_media_query(text) ==
    LET query == trim(text) IN
    IF starts_with(query, Str.not)
    THEN LET media_type == MediaTypeOf(slice_from(query, 4))
         IN IF media_type # None
            THEN Ok(MediaQuery(media_type, <<>>, TRUE))
            ELSE Err("Invalid media type")
    ELSE LET parts == split(query, Str.and)
             first_part == trim(parts[1])
             media_type == MediaTypeOf(first_part)
         IN IF parts = <<>> THEN Err("Empty media query")
            ELSE Ok(MediaQuery(media_type,
                               (IF media_type # None THEN <<>>
                                ELSE parse_feature(first_part))
                               \o ParseFeatures(parts, 2),
                               FALSE))

----------------------------------------------------------------------------
(* usize arithmetic.  A usize is written as the integer of its two's       *)
(* complement reading: 0, 1, 2, ... are themselves and -1, -2, ... are     *)
(* usize::MAX, usize::MAX - 1, ...  Sums and differences of values near 0  *)
(* or near usize::MAX are then ordinary sums and differences, a result of  *)
(* the other sign is an overflow, and the order is the unsigned order.     *)

\* a < b on usize
usize_lt(a, b) == IF (a >= 0) <=> (b >= 0) THEN a < b ELSE b < 0

\* a - b on small usize values overflows exactly when the difference is negative
usize_sub_overflows(a, b) == a >= 0 /\ b >= 0 /\ a - b < 0

\* the outcome of a call: the object after it, the value it returned, and
\* whether it panicked (the object is then left as it was before the call)
Returned(object, value) == [object |-> object, value |-> value, panic |-> FALSE]
Panicked(object) == [object |-> object, value |-> <<>>, panic |-> TRUE]

----------------------------------------------------------------------------
(* browser::NavigationController.  history is a VecDeque<String>; the      *)
(* model's sequences count from 1, the code's indices from 0.              *)

DEFAULT_MAX_HISTORY_SIZE == 100

\* NavigationController::with_max_history_size
with_max_history_size(max_size) ==
    [history |-> <<>>, current_index |-> 0, max_history_size |-> max_size]

\* NavigationController::new
NavigationController_new == with_max_history_size(DEFAULT_MAX_HISTORY_SIZE)

\* VecDeque::get as the controller uses it: self.history.get(index).cloned()
history_get(self, index) ==
    IF index >= 0 /\ index < Len(self.history)
    THEN Some(self.history[index + 1])
    ELSE None

\* NavigationController::push_entry
push_entry(self, url) ==
    LET truncated == IF usize_lt(self.current_index, Len(self.history))
                     THEN SubSeq(self.history, 1, self.current_index + 1)
                     ELSE self.history
        pushed == Append(truncated, url)
        index == Len(pushed) - 1
    IN IF Len(pushed) > self.max_history_size
       THEN IF overflow_checks /\ usize_sub_overflows(index, 1)
            THEN Panicked(self)
            ELSE Returned([self EXCEPT !.history = Tail(pushed),
                                       !.current_index = index - 1], <<>>)
       ELSE Returned([self EXCEPT !.history = pushed,
                                  !.current_index = index], <<>>)

\* NavigationController::can_go_back
can_go_back(self) == Returned(self, usize_lt(0, self.current_index))

\* NavigationController::can_go_forward
can_go_forward(self) ==
    IF overflow_checks /\ usize_sub_overflows(Len(self.history), 1)
    THEN Panicked(self)
    ELSE Returned(self, usize_lt(self.current_index, Len(self.history) - 1))

\* NavigationController::go_back
go_back(self) ==
    IF can_go_back(self).value
    THEN Returned([self EXCEPT !.current_index = self.current_index - 1],
                  history_get(self, self.current_index - 1))
    ELSE Returned(self, None)

\* NavigationController::go_forward
go_forward(self) ==
    LET can == can_go_forward(self)
    IN IF can.panic THEN Panicked(self)
       ELSE IF can.value
       THEN Returned([self EXCEPT !.current_index = self.current_index + 1],
                     history_get(self, self.current_index + 1))
       ELSE Returned(self, None)

\* NavigationController::clear_history
clear_history(self) ==
    Returned([self EXCEPT !.history = <<>>, !.current_index = 0], <<>>)

\* the loop of set_max_history_size
RECURSIVE TrimHistory(_)
TrimHistory(self) ==
    IF Len(self.history) > self.max_history_size
    THEN IF usize_lt(0, self.current_index)
         THEN TrimHistory([self EXCEPT !.history = Tail(self.history),
                                       !.current_index = self.current_index - 1])
         ELSE TrimHistory([self EXCEPT
                  !.history = SubSeq(self.history, 1, Len(self.history) - 1)])
    ELSE self

\* NavigationController::set_max_history_size
set_max_history_size(self, max_size) ==
    Returned(TrimHistory([self EXCEPT !.max_history_size = max_size]), <<>>)

\* NavigationController::navigate_to_index
navigate_to_index(self, index) ==
    IF usize_lt(index, Len(self.history))
    THEN Returned([self EXCEPT !.current_index = index], history_get(self, index))
    ELSE Returned(self, None)

----------------------------------------------------------------------------
(* browser::Tab, with the fields its navigation reads and writes.          *)

\* Tab::new
Tab_new == [navigation |-> NavigationController_new, url |-> None,
            can_go_back |-> FALSE, can_go_forward |-> FALSE]

\* Tab::update_navigation_state
update_navigation_state(self) ==
    LET forward == can_go_forward(self.navigation)
    IN IF forward.panic THEN Panicked(self)
       ELSE Returned([self EXCEPT
                !.can_go_back = can_go_back(self.navigation).value,
                !.can_go_forward = forward.value], <<>>)

\* Tab::navigate
Tab_navigate(self, url) ==
    LET pushed == push_entry(self.navigation, url)
        updated == update_navigation_state(
                       [self EXCEPT !.navigation = pushed.object,
                                    !.url = Some(url)])
    IN IF pushed.panic \/ updated.panic THEN Panicked(self)
       ELSE Returned(updated.object, Ok(<<>>))

\* Tab::go_back
Tab_go_back(self) ==
    LET back == go_back(self.navigation)
    IN IF back.value # None
       THEN Tab_navigate([self EXCEPT !.navigation = back.object], back.value[1])
       ELSE Returned(self, Err("Cannot go back"))

\* Tab::go_forward
Tab_go_forward(self) ==
    LET forward == go_forward(self.navigation)
    IN IF forward.panic THEN Panicked(self)
       ELSE IF forward.value # None
       THEN Tab_navigate([self EXCEPT !.navigation = forward.object],
                         forward.value[1])
       ELSE Returned([self EXCEPT !.navigation = forward.object],
                     Err("Cannot go forward"))

\* Tab::reload
Tab_reload(self) ==
    IF self.url # None THEN Tab_navigate(self, self.url[1])
    ELSE Returned(self, Err("No URL to reload"))

\* Tab::clear_history
Tab_clear_history(self) ==
    update_navigation_state(
        [self EXCEPT !.navigation = clear_history(self.navigation).object])

----------------------------------------------------------------------------
(* browser::Window, with its tabs.  Every Tab::new() is a value like any   *)
(* other; to tell the tab objects apart, a tab is written as the number of *)
(* the create_tab call that made it, counted in tabs_created.              *)

\* Window::new
Window_new == [tabs |-> <<>>, active_tab_index |-> 0, tabs_created |-> 0]

\* Vec::remove
remove_at(v, index) == SubSeq(v, 1, index) \o SubSeq(v, index + 2, Len(v))

\* Window::create_tab
create_tab(self) ==
    Returned([self EXCEPT !.tabs = Append(self.tabs, self.tabs_created + 1),
                          !.tabs_created = self.tabs_created + 1],
             Ok(Len(self.tabs)))

close_tab_keeping_index(self, tab_index) ==
    IF tab_index >= Len(self.tabs)
    THEN Returned(self, Err("Invalid tab index"))
    ELSE LET removed == [self EXCEPT !.tabs = remove_at(self.tabs, tab_index)]
         IN IF removed.tabs = <<>>
            THEN Returned([create_tab(removed).object EXCEPT !.active_tab_index = 0],
                          Ok(<<>>))
            ELSE Returned(removed, Ok(<<>>))

\* Window::close_tab
close_tab(self, tab_index) ==
    IF tab_index >= Len(self.tabs)
    THEN Returned(self, Err("Invalid tab index"))
    ELSE LET removed == [self EXCEPT !.tabs = remove_at(self.tabs, tab_index)]
             adjusted ==
                 IF removed.active_tab_index >= tab_index
                    /\ removed.active_tab_index > 0
                 THEN [removed EXCEPT !.active_tab_index =
                                          removed.active_tab_index - 1]
                 ELSE removed
         IN IF adjusted.tabs = <<>>
            THEN Returned([create_tab(adjusted).object EXCEPT !.active_tab_index = 0],
                          Ok(<<>>))
            ELSE Returned(adjusted, Ok(<<>>))

\* Window::switch_to_tab
switch_to_tab(self, tab_index) ==
    IF tab_index >= Len(self.tabs)
    THEN Returned(self, Err("Invalid tab index"))
    ELSE Returned([self EXCEPT !.active_tab_index = tab_index], Ok(<<>>))

----------------------------------------------------------------------------
(* html_parser::DomTree: the nodes with their links.  nodes[id + 1] is the *)
(* code's self.nodes[id].                                                  *)

\* Node::new, without the node_type
Node_new == [parent |-> None, children |-> <<>>,
             next_sibling |-> None, previous_sibling |-> None]

\* DomTree::new
DomTree_new == [nodes |-> <<>>]

\* DomTree::add_node
add_node(self, node) ==
    Returned([self EXCEPT !.nodes = Append(self.nodes, node)], Len(self.nodes))

\* DomTree::append_child
append_child(self, parent_id, child_id) ==
    IF parent_id >= Len(self.nodes) \/ child_id >= Len(self.nodes)
    THEN Returned(self, Err("Invalid node ID"))
    ELSE LET children == self.nodes[parent_id + 1].children
             linked ==
                 IF children # <<>>
                 THEN LET last_child_id == children[Len(children)]
                          next == [self.nodes EXCEPT
                                      ![last_child_id + 1].next_sibling = Some(child_id)]
                      IN [next EXCEPT
                             ![child_id + 1].previous_sibling = Some(last_child_id)]
                 ELSE self.nodes
             pushed == [linked EXCEPT ![parent_id + 1].children =
                                          Append(linked[parent_id + 1].children, child_id)]
         IN Returned([self EXCEPT !.nodes =
                          [pushed EXCEPT ![child_id + 1].parent = Some(parent_id)]],
                     Ok(<<>>))

\* Iterator::position
position(v, x) ==
    IF \E i \in 1..Len(v) : v[i] = x
    THEN Some((CHOOSE i \in 1..Len(v) : v[i] = x /\ \A j \in 1..(i - 1) : v[j] # x) - 1)
    ELSE None

\* DomTree::remove_child
remove_child(self, parent_id, child_id) ==
    IF parent_id >= Len(self.nodes) \/ child_id >= Len(self.nodes)
    THEN Returned(self, Err("Invalid node ID"))
    ELSE LET prev_sibling == self.nodes[child_id + 1].previous_sibling
             next_sibling == self.nodes[child_id + 1].next_sibling
             pos == position(self.nodes[parent_id + 1].children, child_id)
             removed ==
                 IF pos # None
                 THEN [self.nodes EXCEPT ![parent_id + 1].children =
                          remove_at(self.nodes[parent_id + 1].children, pos[1])]
                 ELSE self.nodes
             child == [removed EXCEPT
                          ![child_id + 1].parent = None,
                          ![child_id + 1].previous_sibling = None,
                          ![child_id + 1].next_sibling = None]
             prev == IF prev_sibling # None
                     THEN [child EXCEPT ![prev_sibling[1] + 1].next_sibling = next_sibling]
                     ELSE child
             next == IF next_sibling # None
                     THEN [prev EXCEPT ![next_sibling[1] + 1].previous_sibling = prev_sibling]
                     ELSE prev
         IN Returned([self EXCEPT !.nodes = next], Ok(<<>>))

----------------------------------------------------------------------------
(* css_parser::Stylesheet with its rules.  A SelectorList is the sequence  *)
(* of its selectors.                                                       *)

\* Stylesheet::new
Stylesheet_new == [rules |-> <<>>, at_rules |-> <<>>, imports |-> <<>>]

\* the maximum of Rule::new over the specificities of the selectors
RECURSIVE MaxOfSpecificities(_)
MaxOfSpecificities(selectors) ==
    IF selectors = <<>> THEN <<0, 0, 0>>
    ELSE LET rest == MaxOfSpecificities(Tail(selectors))
         IN IF SpecificityCmp(Head(selectors).specificity, rest) = "Greater"
            THEN Head(selectors).specificity ELSE rest

\* Rule::new
Rule_new(selectors, declarations) ==
    [selectors |-> selectors, declarations |-> declarations,
     specificity |-> MaxOfSpecificities(selectors)]

\* Stylesheet::add_rule
add_rule(self, rule) ==
    Returned([self EXCEPT !.rules = Append(self.rules, rule)], <<>>)

\* SelectorList::matches_element
SelectorList_matches_element(selectors, element, context) ==
    \E i \in 1..Len(selectors) : matches_element(selectors[i], element, context)

\* the declarations of one rule that compute_cascade pushes onto candidates
RECURSIVE DeclarationsOfProperty(_, _)
DeclarationsOfProperty(declarations, property) ==
    IF declarations = <<>> THEN <<>>
    ELSE (IF Head(declarations).property = property
          THEN <<Head(declarations)>> ELSE <<>>)
         \o DeclarationsOfProperty(Tail(declarations), property)

\* the candidates of compute_cascade, in the order of its two loops
RECURSIVE CascadeCandidates(_, _, _, _)
CascadeCandidates(rules, element, property, context) ==
    IF rules = <<>> THEN <<>>
    ELSE (IF SelectorList_matches_element(Head(rules).selectors, element, context)
          THEN DeclarationsOfProperty(Head(rules).declarations, property)
          ELSE <<>>)
         \o CascadeCandidates(Tail(rules), element, property, context)

\* Stylesheet::compute_cascade: the comparator of the sort answers Equal for
\* every pair and the sort is stable, so the candidates keep their order
compute_cascade(self, element, property, context) ==
    LET candidates == CascadeCandidates(self.rules, element, property, context)
    IN IF candidates = <<>> THEN Returned(self, None)
       ELSE Returned(self, Some(candidates[1]))

----------------------------------------------------------------------------
(* http::HttpCache.  entries is the HashMap from URL to CacheEntry, a      *)
(* function on the URLs cached.  The hit and miss counters, which no       *)
(* eviction reads, are left out.  A response is written with what the      *)
(* cache reads of it: its status and the directives of its Cache-Control   *)
(* header, [status, no_store, max_age].                                    *)

DEFAULT_MAX_SIZE == 1000

\* HttpCache::new
HttpCache_new == [entries |-> EmptyMap, max_size |-> DEFAULT_MAX_SIZE]

\* HttpCache::with_max_size
with_max_size(self, max_size) == [self EXCEPT !.max_size = max_size]

\* CacheEntry::new followed by the set_max_age of HttpCache::set
CacheEntry_new(response, now) ==
    [response |-> response, timestamp |-> now, max_age |-> response.max_age]

\* CacheEntry::is_expired, for an entry without an Expires time
is_expired(entry, now) ==
    entry.max_age # None /\ now > entry.timestamp + entry.max_age[1]

\* CacheEntry::is_cacheable
is_cacheable(entry) ==
    IF entry.response.status >= 200 /\ entry.response.status < 300
    THEN ~entry.response.no_store
    ELSE entry.response.status >= 300 /\ entry.response.status < 400

\* HashMap::remove
map_remove(entries, url) == [u \in DOMAIN entries \ {url} |-> entries[u]]

\* HashMap::insert
map_insert(entries, url, entry) ==
    [u \in DOMAIN entries \cup {url} |-> IF u = url THEN entry ELSE entries[u]]

\* HttpCache::evict_oldest: the caches it can leave.  min_by_key takes the
\* first entry of the least timestamp in the iteration order of the
\* HashMap, which is any order.
evict_oldest(self) ==
    IF DOMAIN self.entries = {} THEN {self}
    ELSE {[self EXCEPT !.entries = map_remove(self.entries, url)] :
            url \in {u \in DOMAIN self.entries :
                        \A v \in DOMAIN self.entries :
                            self.entries[u].timestamp <= self.entries[v].timestamp}}

\* HttpCache::set: the caches it can leave
set(self, url, response, now) ==
    LET entry == CacheEntry_new(response, now)
    IN IF ~is_cacheable(entry) THEN {self}
       ELSE {[evicted EXCEPT !.entries = map_insert(evicted.entries, url, entry)] :
                evicted \in IF Cardinality(DOMAIN self.entries) >= self.max_size
                            THEN evict_oldest(self) ELSE {self}}

\* HttpCache::remove
remove(self, url) == [self EXCEPT !.entries = map_remove(self.entries, url)]

\* HttpCache::clear
clear(self) == [self EXCEPT !.entries = EmptyMap]

\* the loop of set_max_size: the caches it can leave
RECURSIVE EvictToMaxSize(_)
EvictToMaxSize(self) ==
    IF Cardinality(DOMAIN self.entries) > self.max_size
    THEN UNION {EvictToMaxSize(evicted) : evicted \in evict_oldest(self)}
    ELSE {self}

\* HttpCache::set_max_size: the caches it can leave
set_max_size(self, max_size) == EvictToMaxSize([self EXCEPT !.max_size = max_size])

\* HttpCache::evict_expired
evict_expired(self, now) ==
    [self EXCEPT !.entries =
        [u \in {v \in DOMAIN self.entries : ~is_expired(self.entries[v], now)}
            |-> self.entries[u]]]

\* HttpCache::merge
merge(self, other_cache) ==
    [self EXCEPT !.entries =
        [u \in DOMAIN self.entries \cup DOMAIN other_cache.entries
            |-> IF u \in DOMAIN other_cache.entries
                THEN other_cache.entries[u] ELSE self.entries[u]]]

----------------------------------------------------------------------------
(* css_parser::CssParser: the tokens of the text and the position of the   *)
(* cursor in them, counted from 0.  A token is its type and its text.  The *)
(* fields pc and result tell where the parse_stylesheet call stands: in    *)
(* its own loop, in the declarations loop of parse_qualified_rule, or      *)
(* returned with result.                                                  *)

Token(token_type, value) == [token_type |-> token_type, value |-> value]

EOF == Token("EOF", "")

CssParser_new == [tokens |-> <<>>, position |-> 0, pc |-> "idle", result |-> <<>>]

current_token(self) == self.tokens[self.position + 1]

is_eof(self) ==
    \/ self.position >= Len(self.tokens)
    \/ current_token(self).token_type = "EOF"

consume_token(self) ==
    IF ~is_eof(self) THEN [self EXCEPT !.position = @ + 1] ELSE self

RECURSIVE consume_whitespace(_)
consume_whitespace(self) ==
    IF ~is_eof(self) /\ current_token(self).token_type = "Whitespace"
    THEN consume_whitespace(consume_token(self))
    ELSE self

\* the loops that push the current token and consume it until the end of
\* the tokens or a token of one of the types of stop
RECURSIVE ConsumeUntil(_, _)
ConsumeUntil(self, stop) ==
    IF ~is_eof(self) /\ current_token(self).token_type \notin stop
    THEN ConsumeUntil(consume_token(self), stop)
    ELSE self

parse_at_rule(self) ==
    IF current_token(self).token_type = "AtKeyword"
    THEN LET params == ConsumeUntil(consume_token(self), {"LeftCurlyBracket", "Semicolon"})
         IN  IF current_token(params).token_type = "LeftCurlyBracket"
             THEN LET body == ConsumeUntil(consume_token(params), {"RightCurlyBracket"})
                  IN  IF current_token(body).token_type = "RightCurlyBracket"
                      THEN consume_token(body)
                      ELSE body
             ELSE IF current_token(params).token_type = "Semicolon"
                  THEN consume_token(params)
                  ELSE params
    ELSE self

\* the value loop of parse_declaration: the parser and the value tokens
\* when the loop is left
RECURSIVE ValueTokens(_, _)
ValueTokens(self, value_tokens) ==
    IF ~is_eof(self)
       /\ current_token(self).token_type \notin {"Semicolon", "RightCurlyBracket"}
    THEN IF current_token(self) = Token("Delim", "!")
         THEN LET after == consume_token(self)
              IN  IF /\ current_token(after).token_type = "Ident"
                     /\ current_token(after).value = "important"
                  THEN [self |-> consume_token(after), value_tokens |-> value_tokens]
                  ELSE ValueTokens(consume_token(after),
                                   Append(value_tokens, current_token(after)))
         ELSE ValueTokens(consume_token(self),
                          Append(value_tokens, current_token(self)))
    ELSE [self |-> self, value_tokens |-> value_tokens]

parse_value_from_tokens(tokens) ==
    IF tokens = <<>> THEN Err("Empty property value") ELSE Ok(tokens[1])

\* the parser after the call, and what the call returns
parse_declaration(self) ==
    IF current_token(self).token_type = "Ident"
    THEN LET named == consume_token(self)
         IN  IF current_token(named).token_type = "Colon"
             THEN LET valued == ValueTokens(consume_token(named), <<>>)
                      value == parse_value_from_tokens(valued.value_tokens)
                  IN  [self |-> valued.self,
                       result |-> IF value.ok THEN Ok(Some(value.value)) ELSE value]
             ELSE [self |-> named, result |-> Ok(None)]
    ELSE [self |-> self, result |-> Ok(None)]

\* parse_qualified_rule up to its declarations loop: with an empty prelude
\* or no block it returns to the loop of parse_stylesheet
parse_qualified_rule(self) ==
    LET prelude == ConsumeUntil(self, {"LeftCurlyBracket"})
    IN  IF prelude.position = self.position
        THEN self
        ELSE IF current_token(prelude).token_type = "LeftCurlyBracket"
             THEN [consume_token(prelude) EXCEPT !.pc = "declarations"]
             ELSE prelude

\* one pass of the body of the loop of parse_stylesheet
parse_stylesheet_iteration(self) ==
    LET rule == consume_whitespace(self)
    IN  IF is_eof(rule)
        THEN [rule EXCEPT !.pc = "returned", !.result = <<Ok("Stylesheet")>>]
        ELSE IF current_token(rule) = Token("AtKeyword", "")
             THEN parse_at_rule(rule)
             ELSE parse_qualified_rule(rule)

\* one pass of the body of the declarations loop of parse_qualified_rule
declarations_iteration(self) ==
    LET declaration == parse_declaration(consume_whitespace(self))
    IN  IF ~declaration.result.ok
        THEN [declaration.self EXCEPT !.pc = "returned",
                                      !.result = <<declaration.result>>]
        ELSE IF current_token(declaration.self).token_type = "Semicolon"
             THEN consume_token(declaration.self)
             ELSE declaration.self

\* parse_qualified_rule after its declarations loop
declarations_end(self) ==
    [(IF current_token(self).token_type = "RightCurlyBracket"
      THEN consume_token(self) ELSE self) EXCEPT !.pc = "stylesheet"]

----------------------------------------------------------------------------
(* Idle values of the parts a specification does not exercise.             *)

NoCall == [op |-> "", arg |-> <<>>, result |-> <<>>, before |-> <<>>]

EngineIdle ==
    /\ overflow_checks = FALSE
    /\ panicked = FALSE
    /\ call = NoCall
    /\ nav = NavigationController_new
    /\ tab = Tab_new
    /\ window = Window_new
    /\ dom_tree = DomTree_new
    /\ stylesheet = Stylesheet_new
    /\ cache = HttpCache_new
    /\ clock = 0
    /\ parser = CssParser_new

IdleContext == [origin |-> UserAgent, layer |-> NoLayer,
                specificity |-> <<0, 0, 0>>, source_order |-> 0]

WinsIdle == ctxA = IdleContext /\ ctxB = IdleContext /\ wins = <<>>

SelIdle == sel = NewSelector /\ other = <<0, 0, 0>>

ResolverIdle ==
    /\ user_agent_styles = <<>>
    /\ user_styles = <<>>
    /\ author_styles = <<>>
    /\ computed_styles = EmptyMap
    /\ work = <<>>
    /\ pc = "idle"
    /\ viewport = <<1024, 768>>
    /\ dom_root = RootId
    /\ previous = <<>>

QueryIdle ==
    /\ matcher = NewMatcher
    /\ query_text = <<>>
    /\ parsed = <<>>
    /\ query_matches = <<>>

----------------------------------------------------------------------------
(* The comparison of two cascade contexts: the contexts are the inputs,    *)
(* wins is <<>> until a.wins_over(b) has been evaluated, then <<result>>.  *)

WinsInit ==
    /\ ctxA \in CascadeContexts
    /\ ctxB \in CascadeContexts
    /\ wins = <<>>
    /\ EngineIdle
    /\ SelIdle
    /\ ResolverIdle
    /\ QueryIdle

\* the caller evaluates ctxA.wins_over(&ctxB)
CompareContexts ==
    /\ wins = <<>>
    /\ wins' = <<wins_over(ctxA, ctxB)>>
    /\ UNCHANGED <<ctxA, ctxB, selVars, resolverVars, queryVars, engineVars>>

----------------------------------------------------------------------------
(* The construction of css_parser selectors.                               *)

SelInit == SelIdle /\ WinsIdle /\ ResolverIdle /\ QueryIdle /\ EngineIdle

\* Selector::add_simple_selector
add_simple_selector(selector, part) ==
    [selector EXCEPT !.parts = Append(selector.parts, part),
                     !.specificity = update_specificity(Append(selector.parts, part))]

\* Selector::add_combinator
add_combinator(selector, combinator) ==
    [selector EXCEPT !.combinators = Append(selector.combinators, combinator)]

AddSimpleSelector ==
    /\ Len(sel.parts) < MaxParts
    /\ \E part \in SimpleSelectors : sel' = add_simple_selector(sel, part)
    /\ UNCHANGED <<other, winsVars, engineVars, resolverVars, queryVars>>

AddCombinator ==
    /\ Len(sel.combinators) < MaxCombinators
    /\ \E c \in Combinators : sel' = add_combinator(sel, c)
    /\ UNCHANGED <<other, winsVars, engineVars, resolverVars, queryVars>>

\* the caller keeps the specificity of the selector it has built and starts
\* the next one with Selector::new
NextSelector ==
    /\ other' = sel.specificity
    /\ sel' = NewSelector
    /\ UNCHANGED <<winsVars, engineVars, resolverVars, queryVars>>

SelNext == AddSimpleSelector \/ AddCombinator \/ NextSelector

SpecSel == SelInit /\ [][SelNext]_vars

WinsNext == CompareContexts

SpecWins == WinsInit /\ [][WinsNext]_vars

----------------------------------------------------------------------------
(* The evaluation of a media query string: a caller sets the environment   *)
(* of a MediaQueryMatcher, parses the string, and asks whether the parsed  *)
(* query matches.                                                          *)

\* the query strings of the model
Query ==
    [screen |-> <<"s", "c", "r", "e", "e", "n">>,
     print |-> <<"p", "r", "i", "n", "t">>,
     all_padded |-> <<" ", "a", "l", "l", " ">>,
     not_print |-> <<"n", "o", "t", " ", "p", "r", "i", "n", "t">>,
     max_width |-> <<"m", "a", "x", "-", "w", "i", "d", "t", "h", ":", "6", "0", "0">>,
     screen_min_width |-> <<"s", "c", "r", "e", "e", "n", " ", "a", "n", "d", " ", "m", "i", "n", "-", "w", "i", "d", "t", "h", ":", "6", "0", "0">>,
     portrait |-> <<"o", "r", "i", "e", "n", "t", "a", "t", "i", "o", "n", ":", "p", "o", "r", "t", "r", "a", "i", "t">>,
     unknown |-> <<"f", "o", "o">>,
     screen_unknown |-> <<"s", "c", "r", "e", "e", "n", " ", "a", "n", "d", " ", "f", "o", "o", ":", "1">>,
     print_unknown |-> <<"p", "r", "i", "n", "t", " ", "a", "n", "d", " ", "f", "o", "o", ":", "1">>,
     bad_value |-> <<"m", "a", "x", "-", "w", "i", "d", "t", "h", ":", "6", "x">>,
     not_unknown |-> <<"n", "o", "t", " ", "f", "o", "o", ":", "1">>]

QueryStrings == {Query[name] : name \in DOMAIN Query}

\* those with a feature that parse_feature does not know or cannot parse
UnknownFeatureQueries ==
    {Query.unknown, Query.screen_unknown, Query.print_unknown,
     Query.bad_value, Query.not_unknown}

\* the viewports set_viewport is called with
Viewports == {<<800, 600>>, <<500, 700>>}

QueryInit ==
    /\ matcher = NewMatcher
    /\ query_text \in QueryStrings
    /\ parsed = <<>>
    /\ query_matches = <<>>
    /\ WinsIdle /\ SelIdle /\ ResolverIdle /\ EngineIdle

SetViewport ==
    /\ query_matches = <<>>
    /\ \E v \in Viewports : matcher' = set_viewport(matcher, v[1], v[2])
    /\ UNCHANGED <<query_text, parsed, query_matches, winsVars, engineVars, selVars, resolverVars>>

SetMediaType ==
    /\ query_matches = <<>>
    /\ \E t \in {"Screen", "Print"} : matcher' = set_media_type(matcher, t)
    /\ UNCHANGED <<query_text, parsed, query_matches, winsVars, engineVars, selVars, resolverVars>>

ParseMediaQuery ==
    /\ parsed = <<>>
    /\ parsed' = <<parse_media_query(query_text)>>
    /\ UNCHANGED <<matcher, query_text, query_matches, winsVars, engineVars, selVars, resolverVars>>

Matches ==
    /\ parsed # <<>>
    /\ parsed[1].ok
    /\ query_matches = <<>>
    /\ query_matches' = <<matches(matcher, parsed[1].value)>>
    /\ UNCHANGED <<matcher, query_text, parsed, winsVars, engineVars, selVars, resolverVars>>

QueryNext == SetViewport \/ SetMediaType \/ ParseMediaQuery \/ Matches

SpecQuery == QueryInit /\ [][QueryNext]_vars

----------------------------------------------------------------------------
(* The style resolver: stylesheets are registered, then compute_styles     *)
(* walks the tree, one compute_element_styles call at a time.              *)

Init == ResolverIdle /\ WinsIdle /\ SelIdle /\ QueryIdle /\ EngineIdle

RECURSIVE SeqsUpTo(_, _)
SeqsUpTo(S, n) ==
    IF n = 0 THEN {<<>>}
    ELSE SeqsUpTo(S, n - 1) \cup
         {Append(q, x) : q \in {r \in SeqsUpTo(S, n - 1) : Len(r) = n - 1}, x \in S}

RECURSIVE TotalLen(_)
TotalLen(sheets) == IF sheets = <<>> THEN 0 ELSE Len(Head(sheets)) + TotalLen(Tail(sheets))

\* The stylesheet made of the given rule inputs, registered as stylesheet
\* number `sheet` of `origin`.
MakeStylesheet(inputs, origin, sheet) ==
    [i \in 1..Len(inputs) |->
        StyleRule(inputs[i].selectors,
                  <<Declaration(<<origin, sheet, i>>, inputs[i].important)>>)]

\* The rules the model may still register when `kept` rules stay registered.
SheetInputs(kept) == SeqsUpTo(RuleInputs, IF kept >= MaxRules THEN 0 ELSE MaxRules - kept)

\* StyleResolver::add_stylesheet: the user agent's and the user's stylesheet
\* are replaced, an author stylesheet is added to the list
AddStylesheet ==
    /\ pc = "idle"
    /\ \/ \E inputs \in SheetInputs(Len(user_styles) + TotalLen(author_styles)) :
             /\ user_agent_styles' = MakeStylesheet(inputs, "UserAgent", 1)
             /\ UNCHANGED <<user_styles, author_styles>>
       \/ \E inputs \in SheetInputs(Len(user_agent_styles) + TotalLen(author_styles)) :
             /\ user_styles' = MakeStylesheet(inputs, "User", 1)
             /\ UNCHANGED <<user_agent_styles, author_styles>>
       \/ \E inputs \in SheetInputs(Len(user_agent_styles) + Len(user_styles)
                                       + TotalLen(author_styles)) :
             /\ Len(author_styles) < MaxRules
             /\ author_styles' =
                   Append(author_styles,
                          MakeStylesheet(inputs, "Author", Len(author_styles) + 1))
             /\ UNCHANGED <<user_agent_styles, user_styles>>
    /\ UNCHANGED <<computed_styles, work, pc, viewport, dom_root, previous, winsVars, engineVars, selVars, queryVars>>

Frame(element_id, parent_style) ==
    [element_id |-> element_id, parent_style |-> parent_style]

\* StyleResolver::compute_styles, up to its call of compute_element_styles,
\* on the tree whose root_id is given
compute_styles(root_id) ==
    /\ pc \in {"idle", "done"}
    /\ computed_styles' = EmptyMap
    /\ IF root_id # None
       THEN work' = <<Frame(root_id[1], None)>> /\ pc' = "running"
       ELSE work' = <<>> /\ pc' = "done"
    /\ UNCHANGED <<user_agent_styles, user_styles, author_styles>>

ComputeStyles ==
    /\ compute_styles(RootId)
    /\ UNCHANGED <<viewport, dom_root, previous, winsVars, engineVars, selVars, queryVars>>

\* calls for the element children that pass a new ComputedStyle as the
\* style of the parent
ChildFrames_with_new_style(children, style) ==
    LET IsElement(child) == get_node(child) # None /\ get_node(child)[1].is_element
    IN [i \in 1..Len(SelectSeq(children, IsElement)) |->
           Frame(SelectSeq(children, IsElement)[i], Some(InitialStyle))]

\* the calls compute_element_styles makes for the element children of a node
RECURSIVE ChildFrames(_, _)
ChildFrames(children, style) ==
    IF children = <<>> THEN <<>>
    ELSE (IF get_node(Head(children)) # None /\ get_node(Head(children))[1].is_element
          THEN <<Frame(Head(children), Some(style))>> ELSE <<>>)
         \o ChildFrames(Tail(children), style)

\* One call of StyleResolver::compute_element_styles, up to its recursive
\* calls: the style of the element is computed and stored, and the calls for
\* its children are next, before those for its following siblings.
ComputeElementStyles ==
    /\ pc = "running"
    /\ work # <<>>
    /\ LET frame == Head(work) IN
       IF get_node(frame.element_id) = None
       THEN /\ pc' = "error"
            /\ work' = <<>>
            /\ UNCHANGED computed_styles
       ELSE \E style \in ElementStyles(user_agent_styles, user_styles, author_styles,
                                        frame.element_id, frame.parent_style) :
               LET rest == ChildFrames(DomNodes[frame.element_id].children, style)
                               \o Tail(work)
               IN /\ computed_styles' = MapInsert(computed_styles, frame.element_id, style)
                  /\ work' = rest
                  /\ pc' = IF rest = <<>> THEN "done" ELSE "running"
    /\ UNCHANGED <<user_agent_styles, user_styles, author_styles,
                   viewport, dom_root, previous, winsVars, engineVars, selVars, queryVars>>

Next == AddStylesheet \/ ComputeStyles \/ ComputeElementStyles

Spec == Init /\ [][Next]_vars

----------------------------------------------------------------------------
(* Passes of the resolver over chosen trees: one author stylesheet with    *)
(* declarations of three properties and with media blocks is registered,   *)
(* the viewport is set, and compute_styles is called, again and again, on  *)
(* the tree of the document node, of <ul> or of <DIV>.                     *)

\* the rules and media blocks a stylesheet of a pass is made of:
\*   ul     ul { color: red; font-size: 20px }
\*   div    div.c { font-size: 150%; display: block }
\*   c      .c { color: blue }
\*   li     li { display: none; color: green }
\*   dash   [class|=c] { display: grid }
\*   narrow @media (max-width: 600px) { .c { color: maroon } }
\*   wide   @media screen and (min-width: 600px) { li { display: flex } }
PassRule ==
    [ul |-> StyleRule(<<SimpleSel(StyleSimple(Some(<<"u", "l">>), None, <<>>))>>,
                      <<PropertyDeclaration("color", "red", FALSE),
                        PropertyDeclaration("font-size", Px(20), FALSE)>>),
     div |-> StyleRule(<<SelDivC>>,
                       <<PropertyDeclaration("font-size", Percentage(150), FALSE),
                         PropertyDeclaration("display", "block", FALSE)>>),
     c |-> StyleRule(<<SelC>>, <<PropertyDeclaration("color", "blue", FALSE)>>),
     li |-> StyleRule(<<SelLi>>, <<PropertyDeclaration("display", "none", FALSE),
                                   PropertyDeclaration("color", "green", FALSE)>>),
     dash |-> StyleRule(<<SimpleSel([StyleSimple(None, None, <<>>) EXCEPT
                                        !.attributes =
                                            <<[name |-> "class",
                                               operator |-> Some("DashMatch"),
                                               value |-> <<"c">>]>>])>>,
                        <<PropertyDeclaration("display", "grid", FALSE)>>),
     narrow |-> MediaRule(MediaQuery(None, <<MediaFeature("MaxWidth", 600)>>, FALSE),
                          <<StyleRule(<<SelC>>,
                                      <<PropertyDeclaration("color", "maroon", FALSE)>>)>>),
     wide |-> MediaRule(MediaQuery(Some("Screen"), <<MediaFeature("MinWidth", 600)>>, FALSE),
                        <<StyleRule(<<SelLi>>,
                                    <<PropertyDeclaration("display", "flex", FALSE)>>)>>)]

PassRules == {PassRule[name] : name \in DOMAIN PassRule}

PassSheets == SeqsUpTo(PassRules, MaxSheetRules)

\* the root_id of the trees compute_styles is called with: no root, the
\* document node as html_parser sets it, and two elements
Roots == {None, Some(5), Some(0), Some(2)}

\* StyleResolver::add_stylesheet(stylesheet, StyleOrigin::Author)
AddAuthorStylesheet ==
    /\ pc = "idle"
    /\ author_styles = <<>>
    /\ \E sheet \in PassSheets \ {<<>>} : author_styles' = Append(author_styles, sheet)
    /\ UNCHANGED <<user_agent_styles, user_styles, computed_styles, work, pc,
                   viewport, dom_root, previous, winsVars, engineVars, selVars, queryVars>>

\* StyleResolver::update_viewport
UpdateViewport ==
    /\ pc = "idle"
    /\ \E v \in Viewports : viewport' = v
    /\ UNCHANGED <<user_agent_styles, user_styles, author_styles, computed_styles,
                   work, pc, dom_root, previous, winsVars, engineVars, selVars, queryVars>>

\* StyleResolver::compute_styles(dom_tree) up to its call of
\* compute_element_styles
ComputeStylesOfTree ==
    \E root_id \in Roots :
        /\ compute_styles(root_id)
        /\ dom_root' = root_id
        /\ previous' = IF pc = "done" /\ root_id = dom_root
                       THEN <<computed_styles>> ELSE <<>>
        /\ UNCHANGED <<viewport, winsVars, engineVars, selVars, queryVars>>

PassNext ==
    AddAuthorStylesheet \/ UpdateViewport \/ ComputeStylesOfTree \/ ComputeElementStyles

SpecPass == Init /\ [][PassNext]_vars

----------------------------------------------------------------------------
(* Properties of a style resolution pass.                                  *)

\* the rules get_applicable_rules finds for node e, in cascade order
Applicable(e) ==
    get_applicable_rules(user_agent_styles, user_styles, author_styles, e)

\* the declaration of an applicable rule (every rule of the model has one)
DeclarationOf(applicable) == applicable.rule.declarations[1]

\* the applicable rule whose declaration gave node e its computed color
IsWinner(e, applicable) == computed_styles[e].color = DeclarationOf(applicable).value

\* the bucket of the five-way origin a declaration falls in; the user agent's
\* declarations are not elevated by !important
Bucket(applicable) ==
    CASE applicable.origin = "UserAgent" -> UserAgent
      [] applicable.origin = "User" ->
            IF DeclarationOf(applicable).important THEN UserImportant ELSE User
      [] OTHER ->
            IF DeclarationOf(applicable).important THEN AuthorImportant ELSE Author

\* the specificities of the selectors of a rule that match node e
MatchingSpecificities(rule, e) ==
    {calculate_specificity(rule.selectors[i]) :
        i \in {k \in 1..Len(rule.selectors) :
                  selector_matches(rule.selectors[k], DomNodes[e])}}

\* C1: when one Author rule and UserAgent rules are the rules that match an
\* element and declare a property, none of them !important, the computed
\* value is the Author declaration's, whatever the specificities are.
C1_AuthorBeatsUserAgent ==
    \A e \in DOMAIN computed_styles :
        LET app == Applicable(e)
            authors == {i \in 1..Len(app) : app[i].origin = "Author"}
            agents == {i \in 1..Len(app) : app[i].origin = "UserAgent"}
        IN (/\ Cardinality(authors) = 1
            /\ agents # {}
            /\ authors \cup agents = 1..Len(app)
            /\ \A i \in 1..Len(app) : ~DeclarationOf(app[i]).important)
           => \A i \in authors : IsWinner(e, app[i])

\* C2: the declaration that gives an element its computed value is in the
\* highest bucket, of UserAgent < User < Author < Author !important <
\* User !important, that any declaration applying to the element is in.
C2_FiveBucketOrder ==
    \A e \in DOMAIN computed_styles :
        LET app == Applicable(e) IN
        (\A i \in 1..Len(app) :
            ~(app[i].origin = "UserAgent" /\ DeclarationOf(app[i]).important))
        => \A i, j \in 1..Len(app) :
              IsWinner(e, app[i]) => Bucket(app[j]) <= Bucket(app[i])

\* two rules of one author stylesheet, the first before the second, that
\* both match node e with selectors of equal specificity
SameSheetTie(e, k, i, j) ==
    /\ k \in 1..Len(author_styles)
    /\ i \in 1..Len(author_styles[k])
    /\ j \in 1..Len(author_styles[k])
    /\ i < j
    /\ FirstMatch(author_styles[k][i].selectors, DomNodes[e], 1) # 0
    /\ FirstMatch(author_styles[k][j].selectors, DomNodes[e], 1) # 0
    /\ MatchingSpecificities(author_styles[k][i], e)
          = MatchingSpecificities(author_styles[k][j], e)

\* C3: of two Author rules of one stylesheet whose selectors that match an
\* element have equal specificities and that declare the same property, the
\* earlier one never gives the computed value, and the later one gives it
\* when the two are the only rules that apply.
C3_LaterRuleWins ==
    \A e \in DOMAIN computed_styles :
        \A k \in 1..Len(author_styles) :
            \A i, j \in 1..Len(author_styles[k]) :
                SameSheetTie(e, k, i, j) =>
                    /\ computed_styles[e].color
                          # author_styles[k][i].declarations[1].value
                    /\ Len(Applicable(e)) = 2 =>
                          computed_styles[e].color
                             = author_styles[k][j].declarations[1].value

----------------------------------------------------------------------------
(* Properties of CascadeContext::wins_over.                                *)

Greater3(s, t) ==
    \/ s[1] > t[1]
    \/ s[1] = t[1] /\ s[2] > t[2]
    \/ s[1] = t[1] /\ s[2] = t[2] /\ s[3] > t[3]

\* C4: wins_over decides by the first of origin, layer, specificity and
\* source order on which the contexts differ: a higher origin wins; between
\* equal origins and different layers the outcome is the same for all
\* specificities and source orders; between equal origins and layers the
\* higher specificity wins, and between equal specificities the higher
\* source order.
C4_FirstDifferenceDecides ==
    wins # <<>> =>
        /\ ctxA.origin > ctxB.origin => wins[1]
        /\ ctxA.origin < ctxB.origin => ~wins[1]
        /\ (ctxA.origin = ctxB.origin /\ ctxA.layer # ctxB.layer) =>
              \A sa, sb \in InputSpecificities, oa, ob \in 0..MaxSourceOrder :
                 wins_over([ctxA EXCEPT !.specificity = sa, !.source_order = oa],
                           [ctxB EXCEPT !.specificity = sb, !.source_order = ob])
                    = wins[1]
        /\ (ctxA.origin = ctxB.origin /\ ctxA.layer = ctxB.layer
              /\ ctxA.specificity # ctxB.specificity) =>
              wins[1] = Greater3(ctxA.specificity, ctxB.specificity)
        /\ (ctxA.origin = ctxB.origin /\ ctxA.layer = ctxB.layer
              /\ ctxA.specificity = ctxB.specificity) =>
              wins[1] = (ctxA.source_order > ctxB.source_order)

\* the higher origin has won against a layer, a higher specificity and a
\* higher source order
C4_Witness ==
    /\ wins = <<TRUE>>
    /\ ctxA.origin > ctxB.origin
    /\ ~ctxA.layer.some /\ ctxB.layer.some
    /\ Greater3(ctxB.specificity, ctxA.specificity)
    /\ ctxB.source_order > ctxA.source_order

\* C5: between contexts of one origin a layered context wins over an
\* unlayered one, and of two layered contexts the one whose layer has the
\* higher declared order wins, whatever the layers are called.
C5_LayerOrderDecides ==
    (wins # <<>> /\ ctxA.origin = ctxB.origin) =>
        /\ (ctxA.layer.some /\ ~ctxB.layer.some) => wins[1]
        /\ (~ctxA.layer.some /\ ctxB.layer.some) => ~wins[1]
        /\ (ctxA.layer.some /\ ctxB.layer.some
              /\ ctxA.layer.order > ctxB.layer.order) => wins[1]
        /\ (ctxA.layer.some /\ ctxB.layer.some
              /\ ctxA.layer.order < ctxB.layer.order) => ~wins[1]

\* C21: on contexts with pairwise different source orders wins_over is a
\* strict total order: of a.wins_over(b) and b.wins_over(a) exactly one is
\* true, no context wins over itself, and when a wins over b and b over a
\* third context then a wins over the third.
C21_WinsOverStrictTotalOrder ==
    wins # <<>> =>
        /\ ~wins_over(ctxA, ctxA)
        /\ ctxA.source_order # ctxB.source_order =>
              /\ wins[1] # wins_over(ctxB, ctxA)
              /\ \A c \in CascadeContexts :
                    (/\ c.source_order \notin {ctxA.source_order, ctxB.source_order}
                     /\ wins[1]
                     /\ wins_over(ctxB, c))
                    => wins_over(ctxA, c)

\* a has won over b by its layer, b wins over a context of the third source
\* order by its specificity, and a has neither the highest specificity nor
\* the highest source order of the three
C21_Witness ==
    /\ wins = <<TRUE>>
    /\ ctxA.origin = ctxB.origin
    /\ ctxA.layer.some /\ ~ctxB.layer.some
    /\ ctxA.source_order = 0 /\ ctxB.source_order = 1
    /\ ctxA.specificity = <<0, 0, 1>>
    /\ \E c \in CascadeContexts :
          /\ c.source_order = 2
          /\ c.origin = ctxB.origin /\ ~c.layer.some
          /\ wins_over(ctxB, c)
          /\ wins_over(ctxA, c)

\* C29: numeric_value preserves the order of specificities: s is less than
\* t in the lexicographic comparison exactly when the numeric value of s is
\* less than that of t.
C29_NumericValuePreservesOrder ==
    (SpecificityCmp(ctxA.specificity, ctxB.specificity) = "Less")
        <=> (numeric_value(ctxA.specificity) < numeric_value(ctxB.specificity))

----------------------------------------------------------------------------
(* Properties of css_parser selectors.                                     *)

\* C6: the comparison of two specificities is lexicographic on (ids,
\* class-likes, type-likes): more ids is greater, with equal ids more
\* class-likes is greater, with those equal more type-likes is greater, and
\* two specificities are equal only when the three counts are.
C6_LexicographicSpecificity ==
    LET s == sel.specificity
        t == other
    IN /\ Greater3(s, t) <=> SpecificityCmp(s, t) = "Greater"
       /\ Greater3(t, s) <=> SpecificityCmp(s, t) = "Less"
       /\ s = t <=> SpecificityCmp(s, t) = "Equal"

\* .class.class2 against #id: two class selectors are less than one id
C6_Witness ==
    /\ Len(sel.parts) = 2
    /\ \A i \in 1..2 : sel.parts[i].kind = "Class"
    /\ other = <<1, 0, 0>>
    /\ SpecificityCmp(sel.specificity, other) = "Less"

\* C7: the stored specificity of a selector is (number of Id parts, number
\* of Class, Attribute and PseudoClass parts, number of Type and
\* PseudoElement parts); Universal parts and combinators count for nothing.
C7_SpecificityCountsParts ==
    sel.specificity =
        <<CountKind(sel.parts, {"Id"}),
          CountKind(sel.parts, {"Class", "Attribute", "PseudoClass"}),
          CountKind(sel.parts, {"Type", "PseudoElement"})>>

C7_Witness ==
    /\ Len(sel.parts) = 2
    /\ sel.combinators # <<>>
    /\ sel.parts[1].kind = "Universal"
    /\ sel.parts[2].kind = "Attribute"
    /\ sel.specificity = <<0, 1, 0>>

\* C9: a selector A > B matches an element only if the element matches B
\* and its parent is an element that matches A.
C9_ChildCombinator ==
    \A e \in ElementIds, context \in MatchContexts :
        (/\ Len(sel.parts) = 2
         /\ sel.combinators = <<"Child">>
         /\ matches_element(sel, DomNodes[e], context))
        => /\ css_simple_selector_matches(sel.parts[2], DomNodes[e], context)
           /\ DomNodes[e].parent # None
           /\ DomNodes[DomNodes[e].parent[1]].is_element
           /\ \E parent_context \in MatchContexts :
                 css_simple_selector_matches(
                    sel.parts[1], DomNodes[DomNodes[e].parent[1]], parent_context)

\* C10: a selector that is one compound (several simple selectors, no
\* combinator) matches an element only if each of its simple selectors
\* matches the element.
C10_CompoundMatchesAll ==
    \A e \in ElementIds, context \in MatchContexts :
        (sel.combinators = <<>> /\ matches_element(sel, DomNodes[e], context))
        => \A i \in 1..Len(sel.parts) :
              css_simple_selector_matches(sel.parts[i], DomNodes[e], context)

----------------------------------------------------------------------------
(* Properties of MediaQueryMatcher.                                        *)

\* C12: a media query with an unknown or unparsable feature is parsed
\* without an error and never matches, whatever the environment is.
C12_UnknownFeatureNeverMatches ==
    query_text \in UnknownFeatureQueries =>
        /\ parsed # <<>> => parsed[1].ok
        /\ query_matches # <<>> => ~query_matches[1]

----------------------------------------------------------------------------
(* Properties of passes over chosen trees.                                 *)

\* the environment media queries are evaluated in: the screen, with the
\* viewport of the resolver
Environment == set_viewport(NewMatcher, viewport[1], viewport[2])

\* the media blocks of the registered author stylesheets
MediaBlocks ==
    {author_styles[i][j] :
        <<i, j>> \in {<<k, l>> \in (1..Len(author_styles)) \X (1..MaxSheetRules) :
                         /\ l <= Len(author_styles[k])
                         /\ ~IsStyleRule(author_styles[k][l])}}

\* the computed value of a property
ValueOf(style, property) ==
    CASE property = "color" -> style.color
      [] property = "display" -> style.display
      [] property = "font-size" -> style.font_size

\* C11: the rules of a media block whose query the environment does not
\* satisfy take no part in the cascade of any element: they are not among
\* the element's applicable rules, and no stored style has a value that one
\* of their declarations gives.
C11_UnsatisfiedMediaRuleIgnored ==
    \A block \in MediaBlocks :
        ~matches(Environment, block.media) =>
            \A e \in DOMAIN computed_styles :
                \A k \in 1..Len(block.rules) :
                    /\ \A i \in 1..Len(Applicable(e)) :
                          Applicable(e)[i].rule # block.rules[k]
                    /\ \A d \in 1..Len(block.rules[k].declarations) :
                          LET declaration == block.rules[k].declarations[d]
                          IN ValueOf(computed_styles[e], declaration.property)
                                 # declaration.value

\* a finished pass over the tree of <ul>, whose <li class="c"> elements the
\* selector of the (max-width: 600px) block matches, at a viewport 800 wide
C11_Witness ==
    /\ pc = "done"
    /\ dom_root = Some(0)
    /\ viewport = <<800, 600>>
    /\ PassRule.narrow \in MediaBlocks
    /\ ~matches(Environment, PassRule.narrow.media)
    /\ selector_matches(PassRule.narrow.rules[1].selectors[1], DomNodes[1])
    /\ 1 \in DOMAIN computed_styles

\* the properties a winning declaration sets on node e
WinningProperties(e) == DOMAIN apply_cascade(Applicable(e))

\* C13: of a stored element that is not the root of the pass, an inherited
\* property (color, font-size) that no winning declaration sets has the
\* computed value of the parent; of every stored element, a property that
\* is not inherited (display) and that no winning declaration sets has its
\* initial value.
C13_UnsetPropertiesInheritOrInitial ==
    \A e \in DOMAIN computed_styles :
        /\ "display" \notin WinningProperties(e) =>
              computed_styles[e].display = InitialStyle.display
        /\ dom_root # Some(e) =>
              LET parent == DomNodes[e].parent[1]
              IN /\ parent \in DOMAIN computed_styles
                 /\ \A property \in {"color", "font-size"} \ WinningProperties(e) :
                       ValueOf(computed_styles[e], property)
                           = ValueOf(computed_styles[parent], property)

\* a finished pass in which <DIV class="c m"> has a font-size and a display
\* of its own and its child <li class="c"> has declarations of neither
C13_Witness ==
    /\ pc = "done"
    /\ dom_root # None /\ dom_root[1] # 3
    /\ 3 \in DOMAIN computed_styles
    /\ WinningProperties(3) = {"color"}
    /\ computed_styles[2].display # InitialStyle.display
    /\ computed_styles[2].font_size # InitialStyle.font_size
    /\ computed_styles[3].font_size = computed_styles[2].font_size

\* C14: of a stored element with a parent whose winning font-size
\* declaration is a percentage, the computed font-size is that percentage of the computed
\* font-size of its parent (150% of 20px is 30px), and no stored style, of
\* the element or of a descendant that inherits from it, has a percentage
\* as its font-size.
C14_PercentageFontSizeResolved ==
    \A e \in {id \in DOMAIN computed_styles : dom_root # Some(id)} :
        /\ \A k \in {150} : computed_styles[e].font_size # Percentage(k)
        /\ "font-size" \in WinningProperties(e) =>
              \A k \in {150} : \A v \in {16, 20} :
                  (/\ apply_cascade(Applicable(e))["font-size"].value = Percentage(k)
                   /\ computed_styles[DomNodes[e].parent[1]].font_size = Px(v))
                  => computed_styles[e].font_size = Px((v * k) \div 100)

\* the nodes reachable from a node through child links
RECURSIVE Reachable(_)
Reachable(id) ==
    {id} \cup UNION {Reachable(DomNodes[id].children[i]) :
                        i \in 1..Len(DomNodes[id].children)}

\* the elements of the tree with the given root_id
ElementsOfTree(root_id) ==
    IF root_id = None THEN {}
    ELSE {id \in Reachable(root_id[1]) : DomNodes[id].is_element}

\* C15: when compute_styles has returned, the ids with a stored style are
\* the elements reachable from the root of the tree of that pass: each of
\* them has a style, and no other id has one.
C15_StoreHoldsTheElementsOfTheTree ==
    pc = "done" => DOMAIN computed_styles = ElementsOfTree(dom_root)

\* C16: a pass that follows a pass on the same tree, with the same
\* stylesheets and viewport, ends with the store the pass before ended with.
C16_RepeatedPassSameStyles ==
    (pc = "done" /\ previous # <<>>) => computed_styles = previous[1]

\* the second of two finished passes over a tree with an element on which
\* two properties have winning declarations, applied in either order
C16_Witness ==
    /\ pc = "done"
    /\ previous # <<>>
    /\ \E e \in DOMAIN computed_styles : Cardinality(WinningProperties(e)) >= 2

\* C17: compute_styles never ends with an error, and a pass that has not
\* ended has a call of compute_element_styles to make, each of which stores
\* the style of a node that had none: the pass ends with Ok after at most
\* as many calls as the tree has nodes.
C17_PassTerminatesWithOk ==
    /\ [](/\ pc # "error"
          /\ pc = "running" => work # <<>>
          /\ pc = "done" => work = <<>>)
    /\ [][pc = "running" =>
            /\ pc' \in {"running", "done"}
            /\ Cardinality(DOMAIN computed_styles')
                   = Cardinality(DOMAIN computed_styles) + 1]_vars

\* the end of a pass over the tree of the document node with style rules,
\* one of them with an attribute selector, and a media block registered
C17_Witness ==
    /\ pc = "done"
    /\ dom_root = Some(5)
    /\ ElementsOfTree(dom_root) \subseteq DOMAIN computed_styles
    /\ author_styles = <<<<PassRule.dash, PassRule.wide>>>>

\* C20: every pending call of compute_element_styles but the one for the
\* root is for a child of a node whose style is stored, and the parent style
\* it is given is that stored style; every stored node but the root has a
\* stored parent; and a stored style does not change while the pass runs.
C20_ParentStoredBeforeChildren ==
    /\ [](/\ \A i \in 1..Len(work) :
                IF work[i].parent_style = None
                THEN dom_root = Some(work[i].element_id)
                ELSE LET parent == DomNodes[work[i].element_id].parent[1]
                     IN /\ parent \in DOMAIN computed_styles
                        /\ work[i].parent_style[1] = computed_styles[parent]
          /\ \A e \in DOMAIN computed_styles :
                dom_root # Some(e) =>
                    DomNodes[e].parent[1] \in DOMAIN computed_styles)
    /\ [][pc = "running" =>
            \A e \in DOMAIN computed_styles :
                /\ e \in DOMAIN computed_styles'
                /\ computed_styles'[e] = computed_styles[e]]_vars

\* the call for a child is pending with a parent style that is not the new
\* ComputedStyle
C20_Witness ==
    /\ pc = "running"
    /\ work # <<>>
    /\ Head(work).parent_style # None
    /\ Head(work).parent_style[1] # InitialStyle
    /\ Head(work).element_id \notin DOMAIN computed_styles

----------------------------------------------------------------------------
(* Properties of attribute selectors, for both matchers: matches_element   *)
(* of css_parser and simple_selector_matches of the style resolver.        *)

\* elements without attributes and with a class or a lang attribute whose
\* value is empty, the selector's value, that value and a suffix after '-',
\* or a longer word that begins with it
AttributeElements ==
    {ElementNode(<<"p">>, attributes, None, <<>>) :
        attributes \in {NoAttributes} \cup
            UNION {{[n \in {name} |-> value] :
                       value \in {<<>>, <<"c">>, <<"e", "n">>,
                                  <<"e", "n", "-", "U", "S">>,
                                  <<"e", "n", "g", "l", "i", "s", "h">>}} :
                   name \in {"class", "lang"}}}

\* the selector of one attribute part as the style resolver reads it
ResolverSelector(part) ==
    [StyleSimple(None, None, <<>>) EXCEPT
        !.attributes =
            <<[name |-> part.name,
               operator |-> IF part.operator = "Exists" THEN None
                            ELSE Some(part.operator),
               value |-> IF part.value = None THEN <<>> ELSE part.value[1]]>>]

\* the selector under construction is one attribute selector
IsAttributeSelector == Len(sel.parts) = 1 /\ sel.parts[1].kind = "Attribute"

\* C18: [a] matches an element exactly when the element has an attribute a,
\* whatever its value, the empty string included; and no attribute selector
\* on a, of any operator, matches an element without an attribute a.
C18_AttributeExists ==
    IsAttributeSelector =>
        \A element \in AttributeElements :
            LET part == sel.parts[1]
                present == part.name \in DOMAIN element.attributes
                css == matches_element(sel, element, DefaultContext)
                resolver == simple_selector_matches(ResolverSelector(part), element)
            IN /\ part.operator = "Exists" => (css <=> present) /\ (resolver <=> present)
               /\ ~present => ~css /\ ~resolver

\* C19: [a|=v] matches an element exactly when the element has an attribute
\* a whose value is v or begins with v and '-'.
C19_DashMatch ==
    (IsAttributeSelector /\ sel.parts[1].operator = "DashMatch") =>
        \A element \in AttributeElements :
            LET part == sel.parts[1]
                expected ==
                    /\ part.name \in DOMAIN element.attributes
                    /\ \/ element.attributes[part.name] = part.value[1]
                       \/ starts_with(element.attributes[part.name],
                                      Append(part.value[1], "-"))
                css == matches_element(sel, element, DefaultContext)
                resolver == simple_selector_matches(ResolverSelector(part), element)
            IN (css <=> expected) /\ (resolver <=> expected)

----------------------------------------------------------------------------
(* Calls on a NavigationController, in either build.                       *)

MaxHistorySize == 2     \* the controllers are made with a limit of 0..MaxHistorySize, or the default
MaxHistoryLen == 3      \* push_entry is called on histories of at most this many entries
MaxIndexDrift == 2      \* go_back and go_forward are called while |current_index| is at most this

Urls == {"A", "B", "C"}

NavInit ==
    /\ overflow_checks \in BOOLEAN
    /\ panicked = FALSE
    /\ call = NoCall
    /\ nav \in {NavigationController_new}
               \cup {with_max_history_size(m) : m \in 0..MaxHistorySize}
    /\ tab = Tab_new
    /\ window = Window_new
    /\ dom_tree = DomTree_new
    /\ stylesheet = Stylesheet_new
    /\ cache = HttpCache_new
    /\ clock = 0
    /\ parser = CssParser_new
    /\ WinsIdle /\ SelIdle /\ ResolverIdle /\ QueryIdle

\* the call op(arg) on the controller, with the outcome r
NavCall(op, arg, r) ==
    /\ nav' = r.object
    /\ panicked' = r.panic
    /\ call' = [op |-> op, arg |-> arg, before |-> nav,
                result |-> IF r.panic THEN <<>> ELSE <<r.value>>]
    /\ UNCHANGED <<overflow_checks, tab, window, dom_tree, stylesheet, cache, clock, parser, winsVars, selVars, resolverVars, queryVars>>

PushEntry ==
    /\ ~panicked
    /\ Len(nav.history) <= MaxHistoryLen
    /\ \E url \in Urls : NavCall("push_entry", <<url>>, push_entry(nav, url))

CanGoBack ==
    /\ ~panicked
    /\ NavCall("can_go_back", <<>>, can_go_back(nav))

CanGoForward ==
    /\ ~panicked
    /\ NavCall("can_go_forward", <<>>, can_go_forward(nav))

GoBack ==
    /\ ~panicked
    /\ nav.current_index >= -MaxIndexDrift
    /\ NavCall("go_back", <<>>, go_back(nav))

GoForward ==
    /\ ~panicked
    /\ nav.current_index <= MaxIndexDrift
    /\ NavCall("go_forward", <<>>, go_forward(nav))

NavigateToIndex ==
    /\ ~panicked
    /\ \E index \in 0..MaxHistoryLen :
          NavCall("navigate_to_index", <<index>>, navigate_to_index(nav, index))

ClearHistory ==
    /\ ~panicked
    /\ NavCall("clear_history", <<>>, clear_history(nav))

SetMaxHistorySize ==
    /\ ~panicked
    /\ \E max_size \in 0..MaxHistorySize :
          NavCall("set_max_history_size", <<max_size>>,
                  set_max_history_size(nav, max_size))

NavNext ==
    \/ PushEntry \/ CanGoBack \/ CanGoForward \/ GoBack \/ GoForward
    \/ NavigateToIndex \/ ClearHistory \/ SetMaxHistorySize

SpecNav == NavInit /\ [][NavNext]_vars

----------------------------------------------------------------------------
(* Calls on a Tab, in either build.                                        *)

TabInit ==
    /\ overflow_checks \in BOOLEAN
    /\ panicked = FALSE
    /\ call = NoCall
    /\ nav = NavigationController_new
    /\ tab = Tab_new
    /\ window = Window_new
    /\ dom_tree = DomTree_new
    /\ stylesheet = Stylesheet_new
    /\ cache = HttpCache_new
    /\ clock = 0
    /\ parser = CssParser_new
    /\ WinsIdle /\ SelIdle /\ ResolverIdle /\ QueryIdle

\* the call op(arg) on the tab, with the outcome r
TabCall(op, arg, r) ==
    /\ tab' = r.object
    /\ panicked' = r.panic
    /\ call' = [op |-> op, arg |-> arg, before |-> tab,
                result |-> IF r.panic THEN <<>> ELSE <<r.value>>]
    /\ UNCHANGED <<overflow_checks, nav, window, dom_tree, stylesheet, cache, clock, parser, winsVars, selVars, resolverVars, queryVars>>

\* a tab takes calls until one panics; the histories are kept short
TabReady ==
    /\ ~panicked
    /\ Len(tab.navigation.history) <= MaxHistoryLen
    /\ tab.navigation.current_index \in -MaxIndexDrift..MaxIndexDrift

TabNavigate ==
    /\ TabReady
    /\ \E url \in Urls : TabCall("navigate", <<url>>, Tab_navigate(tab, url))

TabGoBack ==
    /\ TabReady
    /\ TabCall("go_back", <<>>, Tab_go_back(tab))

TabGoForward ==
    /\ TabReady
    /\ TabCall("go_forward", <<>>, Tab_go_forward(tab))

TabReload ==
    /\ TabReady
    /\ TabCall("reload", <<>>, Tab_reload(tab))

TabClearHistory ==
    /\ TabReady
    /\ TabCall("clear_history", <<>>, Tab_clear_history(tab))

TabNext ==
    TabNavigate \/ TabGoBack \/ TabGoForward \/ TabReload \/ TabClearHistory

SpecTab == TabInit /\ [][TabNext]_vars

----------------------------------------------------------------------------
(* Properties of the navigation history.                                   *)

\* a controller as new() and clear_history() leave it
EmptyHistory(n) == n.history = <<>> /\ n.current_index = 0

\* C24: on a controller whose history is empty (new, or cleared),
\* can_go_back() and can_go_forward() return false, go_back() and
\* go_forward() return None, and the controller stays as it was.
C24_EmptyHistoryCannotMove ==
    (/\ call.op \in {"can_go_back", "can_go_forward", "go_back", "go_forward"}
     /\ EmptyHistory(call.before))
    => /\ ~panicked
       /\ nav = call.before
       /\ call.result = IF call.op \in {"can_go_back", "can_go_forward"}
                        THEN <<FALSE>> ELSE <<None>>

\* C26: whatever the calls and the limit, the history holds at most
\* max_history_size entries, a non-empty history has its current_index at
\* one of its entries, and right after push_entry(u) that entry is u.
C26_HistoryWithinLimitAndIndexValid ==
    /\ ~panicked
    /\ Len(nav.history) <= nav.max_history_size
    /\ nav.history # <<>> =>
          /\ nav.current_index \in 0..(Len(nav.history) - 1)
          /\ call.op = "push_entry" =>
                nav.history[nav.current_index + 1] = call.arg[1]

\* a tab that navigated to three pages in turn and stands on the third
OnThirdPage(t) ==
    /\ Len(t.navigation.history) = 3
    /\ t.navigation.current_index = 2
    /\ t.url = Some(t.navigation.history[3])

\* C25: on a tab that navigated to A, B, C, go_back makes B the current URL,
\* keeps the history and makes can_go_forward() true; a go_forward that
\* follows makes C current again, with the history as it was.
C25_BackThenForwardRestores ==
    /\ [](call.op = "go_back" /\ OnThirdPage(call.before) =>
            /\ ~panicked
            /\ tab.url = Some(call.before.navigation.history[2])
            /\ tab.navigation.history = call.before.navigation.history
            /\ tab.can_go_forward)
    /\ [][(/\ call.op = "go_back" /\ OnThirdPage(call.before)
           /\ call'.op = "go_forward")
          => /\ call'.result = <<Ok(<<>>)>>
             /\ tab'.url = call.before.url
             /\ tab'.navigation.history = call.before.navigation.history]_vars

----------------------------------------------------------------------------
(* Calls on a Window.                                                      *)

MaxTabsCreated == 4     \* create_tab is called while fewer tabs than this were made

WindowInit ==
    /\ overflow_checks \in BOOLEAN
    /\ panicked = FALSE
    /\ call = NoCall
    /\ nav = NavigationController_new
    /\ tab = Tab_new
    /\ window = Window_new
    /\ dom_tree = DomTree_new
    /\ stylesheet = Stylesheet_new
    /\ cache = HttpCache_new
    /\ clock = 0
    /\ parser = CssParser_new
    /\ WinsIdle /\ SelIdle /\ ResolverIdle /\ QueryIdle

\* the call op(arg) on the window, with the outcome r
WindowCall(op, arg, r) ==
    /\ window' = r.object
    /\ call' = [op |-> op, arg |-> arg, before |-> window, result |-> <<r.value>>]
    /\ UNCHANGED <<overflow_checks, panicked, nav, tab, dom_tree, stylesheet, cache, clock, parser, winsVars, selVars, resolverVars, queryVars>>

CreateTab ==
    /\ window.tabs_created < MaxTabsCreated
    /\ WindowCall("create_tab", <<>>, create_tab(window))

CloseTab ==
    /\ window.tabs_created < MaxTabsCreated
    /\ \E tab_index \in 0..MaxTabsCreated :
          WindowCall("close_tab", <<tab_index>>, close_tab(window, tab_index))

SwitchToTab ==
    /\ ~panicked
    /\ \E tab_index \in 0..MaxTabsCreated :
          WindowCall("switch_to_tab", <<tab_index>>, switch_to_tab(window, tab_index))

WindowNext == CreateTab \/ CloseTab \/ SwitchToTab

SpecWindow == WindowInit /\ [][WindowNext]_vars

----------------------------------------------------------------------------
(* Properties of the window's tabs.                                        *)

\* Window::get_active_tab
get_active_tab(self) ==
    IF self.active_tab_index < Len(self.tabs)
    THEN Some(self.tabs[self.active_tab_index + 1])
    ELSE None

\* a close_tab of a tab that is not the active one leaves the same tab
\* active, the index one lower exactly when the closed tab stood before it
ClosingAnotherTabKeepsTheActiveOne ==
    (/\ call.op = "close_tab"
     /\ call.result[1].ok
     /\ call.arg[1] # call.before.active_tab_index)
    => /\ get_active_tab(window) = get_active_tab(call.before)
       /\ window.active_tab_index =
             call.before.active_tab_index
             - (IF call.arg[1] < call.before.active_tab_index THEN 1 ELSE 0)

\* C27 as stated: after any calls of create_tab, close_tab and switch_to_tab,
\* active_tab_index designates one of the window's tabs, and closing a tab
\* other than the active one leaves the same tab active.
C27_ActiveTabAfterAnyCalls ==
    /\ call.op # "" => get_active_tab(window) # None
    /\ ClosingAnotherTabKeepsTheActiveOne

\* C27, amended: once a call on the window has succeeded (the window then
\* has a tab), active_tab_index designates one of its tabs; and closing a
\* tab other than the active one leaves the same tab active, the index one
\* lower exactly when the closed tab stood before the active one.
C27_ActiveTabExistsAndSurvivesClose ==
    /\ (call.op # "" /\ call.result[1].ok) \/ window.tabs # <<>>
          => get_active_tab(window) # None
    /\ ClosingAnotherTabKeepsTheActiveOne

C27_Witness ==
    /\ call.op = "close_tab"
    /\ call.result[1].ok
    /\ call.arg[1] < call.before.active_tab_index
    /\ Len(window.tabs) >= 2

----------------------------------------------------------------------------
(* Calls on a DomTree.                                                     *)

MaxNodes == 2           \* add_node is called on trees of fewer nodes than this
MaxChildren == 2        \* append_child is called on parents of fewer children than this

DomInit ==
    /\ overflow_checks = FALSE
    /\ panicked = FALSE
    /\ call = NoCall
    /\ nav = NavigationController_new
    /\ tab = Tab_new
    /\ window = Window_new
    /\ dom_tree = DomTree_new
    /\ stylesheet = Stylesheet_new
    /\ cache = HttpCache_new
    /\ clock = 0
    /\ parser = CssParser_new
    /\ WinsIdle /\ SelIdle /\ ResolverIdle /\ QueryIdle

\* the call op(arg) on the tree, with the outcome r
DomCall(op, arg, r) ==
    /\ dom_tree' = r.object
    /\ call' = [op |-> op, arg |-> arg, before |-> dom_tree, result |-> <<r.value>>]
    /\ UNCHANGED <<overflow_checks, panicked, nav, tab, window, stylesheet, cache, clock, parser, winsVars, selVars, resolverVars, queryVars>>

AddNode ==
    /\ Len(dom_tree.nodes) < MaxNodes
    /\ DomCall("add_node", <<>>, add_node(dom_tree, Node_new))

AppendChild ==
    /\ ~panicked
    /\ \E parent_id, child_id \in 0..MaxNodes :
          /\ parent_id < Len(dom_tree.nodes) =>
                Len(dom_tree.nodes[parent_id + 1].children) < MaxChildren
          /\ DomCall("append_child", <<parent_id, child_id>>,
                     append_child(dom_tree, parent_id, child_id))

RemoveChild ==
    /\ ~panicked
    /\ \E parent_id, child_id \in 0..MaxNodes :
          DomCall("remove_child", <<parent_id, child_id>>,
                  remove_child(dom_tree, parent_id, child_id))

DomNext == AddNode \/ AppendChild \/ RemoveChild

SpecDom == DomInit /\ [][DomNext]_vars

----------------------------------------------------------------------------
(* Properties of the tree links.                                           *)

NodeIds == 0..(Len(dom_tree.nodes) - 1)

\* the positions at which child_id stands in the children list of parent_id
Positions(parent_id, child_id) ==
    {i \in 1..Len(dom_tree.nodes[parent_id + 1].children) :
        dom_tree.nodes[parent_id + 1].children[i] = child_id}

\* C28: after successful append_child and remove_child calls a node c is in
\* the children list of p exactly when the parent of c is p, and no node is
\* in two children lists or twice in one.
C28_TreeLinksConsistent ==
    \A c \in NodeIds :
        /\ \A p \in NodeIds :
              (Positions(p, c) # {}) <=> (dom_tree.nodes[c + 1].parent = Some(p))
        /\ Cardinality({p \in NodeIds : Positions(p, c) # {}}) <= 1
        /\ \A p \in NodeIds : Cardinality(Positions(p, c)) <= 1

----------------------------------------------------------------------------
(* A css_parser stylesheet is filled with rules and asked for the cascaded *)
(* declaration of a property on an element of the tree.                    *)

MaxStylesheetRules == 3     \* add_rule is called on stylesheets of fewer rules than this

\* a selector list of one selector of one part
OneSelector(part) == <<add_simple_selector(NewSelector, part)>>

\* li { color: red }   .c { color: blue }   li { color: green; display: block }
\* #x { display: flex }   ul, .m { color: red }
SheetRules ==
    {Rule_new(OneSelector(Type(<<"l", "i">>)),
              <<PropertyDeclaration("color", "red", FALSE)>>),
     Rule_new(OneSelector(Class(<<"c">>)),
              <<PropertyDeclaration("color", "blue", FALSE)>>),
     Rule_new(OneSelector(Type(<<"l", "i">>)),
              <<PropertyDeclaration("color", "green", FALSE),
                PropertyDeclaration("display", "block", FALSE)>>),
     Rule_new(OneSelector(Id(<<"x">>)),
              <<PropertyDeclaration("display", "flex", FALSE)>>),
     Rule_new(OneSelector(Type(<<"u", "l">>)) \o OneSelector(Class(<<"m">>)),
              <<PropertyDeclaration("color", "red", FALSE)>>)}

SheetInit ==
    /\ overflow_checks = FALSE
    /\ panicked = FALSE
    /\ call = NoCall
    /\ nav = NavigationController_new
    /\ tab = Tab_new
    /\ window = Window_new
    /\ dom_tree = DomTree_new
    /\ stylesheet = Stylesheet_new
    /\ cache = HttpCache_new
    /\ clock = 0
    /\ parser = CssParser_new
    /\ WinsIdle /\ SelIdle /\ ResolverIdle /\ QueryIdle

\* the call op(arg) on the stylesheet, with the outcome r
SheetCall(op, arg, r) ==
    /\ stylesheet' = r.object
    /\ call' = [op |-> op, arg |-> arg, before |-> stylesheet, result |-> <<r.value>>]
    /\ UNCHANGED <<overflow_checks, panicked, nav, tab, window, dom_tree, cache, clock, parser, winsVars, selVars, resolverVars, queryVars>>

AddRule ==
    /\ Len(stylesheet.rules) < MaxStylesheetRules
    /\ \E rule \in SheetRules : SheetCall("add_rule", <<rule>>, add_rule(stylesheet, rule))

ComputeCascade ==
    /\ ~panicked
    /\ \E id \in ElementIds, property \in {"color", "display"} :
          SheetCall("compute_cascade", <<id, property>>,
                    compute_cascade(stylesheet, DomNodes[id], property, DefaultContext))

SheetNext == AddRule \/ ComputeCascade

SpecSheet == SheetInit /\ [][SheetNext]_vars

----------------------------------------------------------------------------
(* Properties of Stylesheet::compute_cascade.                              *)

\* the candidates of the last compute_cascade call: the <<rule, declaration>>
\* positions of the declarations of the property in the matching rules
CandidatePositions ==
    {pos \in {<<r, d>> : r \in 1..Len(stylesheet.rules), d \in 1..2} :
        /\ pos[2] <= Len(stylesheet.rules[pos[1]].declarations)
        /\ SelectorList_matches_element(stylesheet.rules[pos[1]].selectors,
                                        DomNodes[call.arg[1]], DefaultContext)
        /\ stylesheet.rules[pos[1]].declarations[pos[2]].property = call.arg[2]}

\* p beats q: the greater specificity, and of equal ones the later position
Beats(p, q) ==
    LET cmp == SpecificityCmp(stylesheet.rules[p[1]].specificity,
                              stylesheet.rules[q[1]].specificity)
    IN \/ cmp = "Greater"
       \/ cmp = "Equal" /\ LexCmp(p, q) = "Greater"

\* C22: compute_cascade(element, property) returns None when no matching
\* rule declares the property, and otherwise the candidate declaration of
\* the greatest specificity, the later one of those of equal specificity.
C22_ComputeCascadeReturnsWinner ==
    call.op = "compute_cascade" =>
        IF CandidatePositions = {} THEN call.result = <<None>>
        ELSE \E p \in CandidatePositions :
                /\ \A q \in CandidatePositions \ {p} : Beats(p, q)
                /\ call.result =
                      <<Some(stylesheet.rules[p[1]].declarations[p[2]])>>

----------------------------------------------------------------------------
(* Calls on an HttpCache while the clock advances.                         *)

MaxCacheSize == 2       \* the caches are made with a max_size of 0..MaxCacheSize, or the default
MaxClock == 2           \* the clock is read at the seconds 0..MaxClock

Responses ==
    {[status |-> 200, no_store |-> FALSE, max_age |-> None],
     [status |-> 200, no_store |-> FALSE, max_age |-> Some(0)],
     [status |-> 200, no_store |-> TRUE, max_age |-> None],
     [status |-> 404, no_store |-> FALSE, max_age |-> None]}

\* the caches handed to merge: new caches that were given one or two entries
OtherCaches ==
    {[HttpCache_new EXCEPT !.entries =
         [u \in S |-> CacheEntry_new([status |-> 200, no_store |-> FALSE,
                                      max_age |-> None], 0)]] :
        S \in {{"B"}, {"A", "C"}}}

CacheInit ==
    /\ overflow_checks = FALSE
    /\ panicked = FALSE
    /\ call = NoCall
    /\ nav = NavigationController_new
    /\ tab = Tab_new
    /\ window = Window_new
    /\ dom_tree = DomTree_new
    /\ stylesheet = Stylesheet_new
    /\ cache \in {HttpCache_new}
                 \cup {with_max_size(HttpCache_new, m) : m \in 0..MaxCacheSize}
    /\ clock = 0
    /\ parser = CssParser_new
    /\ WinsIdle /\ SelIdle /\ ResolverIdle /\ QueryIdle

\* the call op(arg) on the cache, which leaves it as after
CacheCall(op, arg, after) ==
    /\ cache' = after
    /\ call' = [op |-> op, arg |-> arg, before |-> <<>>, result |-> <<>>]
    /\ UNCHANGED <<overflow_checks, panicked, nav, tab, window, dom_tree, stylesheet, clock, parser, winsVars, selVars, resolverVars, queryVars>>

CacheSet ==
    /\ ~panicked
    /\ \E url \in Urls, response \in Responses :
          \E after \in set(cache, url, response, clock) :
              CacheCall("set", <<url>>, after)

CacheRemove ==
    /\ ~panicked
    /\ \E url \in Urls : CacheCall("remove", <<url>>, remove(cache, url))

CacheClear ==
    /\ ~panicked
    /\ CacheCall("clear", <<>>, clear(cache))

CacheMerge ==
    /\ ~panicked
    /\ \E other_cache \in OtherCaches :
          CacheCall("merge", <<other_cache>>, merge(cache, other_cache))

EvictExpired ==
    /\ ~panicked
    /\ CacheCall("evict_expired", <<>>, evict_expired(cache, clock))

EvictOldest ==
    /\ ~panicked
    /\ \E after \in evict_oldest(cache) : CacheCall("evict_oldest", <<>>, after)

SetMaxSize ==
    /\ ~panicked
    /\ \E max_size \in 0..MaxCacheSize :
          \E after \in set_max_size(cache, max_size) :
              CacheCall("set_max_size", <<max_size>>, after)

\* a second passes
Tick ==
    /\ clock < MaxClock
    /\ clock' = clock + 1
    /\ UNCHANGED <<overflow_checks, panicked, call, nav, tab, window, dom_tree, stylesheet, cache, parser, winsVars, selVars, resolverVars, queryVars>>

CacheNext ==
    \/ CacheSet \/ CacheRemove \/ CacheClear \/ CacheMerge
    \/ EvictExpired \/ EvictOldest \/ SetMaxSize \/ Tick

SpecCache == CacheInit /\ [][CacheNext]_vars

----------------------------------------------------------------------------
(* Properties of the cache.                                                *)

\* HttpCache::size
size(self) == Cardinality(DOMAIN self.entries)

\* C30: whatever the mutating calls and the configured max_size, the cache
\* never holds more than max_size entries.
C30_CacheWithinMaxSize == size(cache) <= cache.max_size

----------------------------------------------------------------------------
(* CssParser::parse_stylesheet on the tokens of a text, one pass of a loop *)
(* at a time.                                                              *)

MaxTokens == 3          \* the short texts have 0..MaxTokens tokens before EOF

Whitespace == Token("Whitespace", "")
Colon == Token("Colon", "")
Semicolon == Token("Semicolon", "")
LeftCurlyBracket == Token("LeftCurlyBracket", "")
RightCurlyBracket == Token("RightCurlyBracket", "")
Ident(name) == Token("Ident", name)
Dimension(text) == Token("Dimension", text)

ShortTokens ==
    {Whitespace, Colon, Semicolon, LeftCurlyBracket, RightCurlyBracket,
     Ident("color"), Token("Delim", "."), Token("AtKeyword", ""),
     Token("AtKeyword", "media")}

\* the tokenizer makes one Whitespace token of a run of white space, and
\* one token of an identifier or at-keyword and the identifier characters
\* behind it
Tokenizable(tokens) ==
    \A i \in 1..(Len(tokens) - 1) :
        /\ ~(tokens[i] = Whitespace /\ tokens[i + 1] = Whitespace)
        /\ ~(/\ tokens[i].token_type \in {"Ident", "AtKeyword"}
             /\ tokens[i + 1].token_type = "Ident")

\* the tokens of
\*   .container { padding: 20px; }
\*   @media (max-width: 768px) { .container { margin: 10px; padding: 15px; } }
\* the last rule and the @media block of the text of test_css_parsing
CssParsingText ==
    <<Token("Delim", "."), Ident("container"), Whitespace, LeftCurlyBracket,
      Whitespace, Ident("padding"), Colon, Whitespace, Dimension("20px"),
      Semicolon, Whitespace, RightCurlyBracket, Whitespace,
      Token("AtKeyword", "media"), Whitespace, Token("LeftParenthesis", ""),
      Ident("max-width"), Colon, Whitespace, Dimension("768px"),
      Token("RightParenthesis", ""), Whitespace, LeftCurlyBracket, Whitespace,
      Token("Delim", "."), Ident("container"), Whitespace, LeftCurlyBracket,
      Whitespace, Ident("margin"), Colon, Whitespace, Dimension("10px"),
      Semicolon, Whitespace, Ident("padding"), Colon, Whitespace,
      Dimension("15px"), Semicolon, Whitespace, RightCurlyBracket, Whitespace,
      RightCurlyBracket, Whitespace>>

\* the tokens of the text of test_error_handling,
\*   body { color: red; font-size: 2em; } h1 { invalid-property: value; }
ErrorHandlingText ==
    <<Ident("body"), Whitespace, LeftCurlyBracket, Whitespace, Ident("color"),
      Colon, Whitespace, Ident("red"), Semicolon, Whitespace,
      Ident("font-size"), Colon, Whitespace, Dimension("2em"), Semicolon,
      Whitespace, RightCurlyBracket, Whitespace, Ident("h1"), Whitespace,
      LeftCurlyBracket, Whitespace, Ident("invalid-property"), Colon,
      Whitespace, Ident("value"), Semicolon, Whitespace, RightCurlyBracket>>

\* the tokens of  p { color: red !important; margin: ! 0 }
ImportantText ==
    <<Ident("p"), Whitespace, LeftCurlyBracket, Whitespace, Ident("color"),
      Colon, Whitespace, Ident("red"), Whitespace, Token("Delim", "!"),
      Ident("important"), Semicolon, Whitespace, Ident("margin"), Colon,
      Whitespace, Token("Delim", "!"), Whitespace, Token("Number", "0"),
      Whitespace, RightCurlyBracket>>

\* the tokens of  p { color:; }
EmptyValueText ==
    <<Ident("p"), Whitespace, LeftCurlyBracket, Whitespace, Ident("color"),
      Colon, Semicolon, Whitespace, RightCurlyBracket>>

\* what tokenize returns for the texts: their tokens and the EOF token
TokenInputs ==
    {Append(tokens, EOF) :
        tokens \in {t \in SeqsUpTo(ShortTokens, MaxTokens) : Tokenizable(t)}
                   \cup {CssParsingText, ErrorHandlingText, ImportantText,
                         EmptyValueText}}

ParserInit ==
    /\ overflow_checks = FALSE
    /\ panicked = FALSE
    /\ call = NoCall
    /\ nav = NavigationController_new
    /\ tab = Tab_new
    /\ window = Window_new
    /\ dom_tree = DomTree_new
    /\ stylesheet = Stylesheet_new
    /\ cache = HttpCache_new
    /\ clock = 0
    /\ parser = CssParser_new
    /\ WinsIdle /\ SelIdle /\ ResolverIdle /\ QueryIdle

\* the step op of the parser, which finds the cursor at call'.before and
\* leaves the parser as after
ParserStep(op, after) ==
    /\ parser' = after
    /\ call' = [op |-> op, arg |-> <<>>, before |-> parser.position,
                result |-> after.result]
    /\ UNCHANGED <<overflow_checks, panicked, nav, tab, window, dom_tree, stylesheet, cache, clock, winsVars, selVars, resolverVars, queryVars>>

\* parse_stylesheet is called: the text is tokenized and the cursor reset
ParseStylesheet ==
    /\ parser.pc \in {"idle", "returned"}
    /\ \E tokens \in TokenInputs :
          ParserStep("parse_stylesheet",
                     [tokens |-> tokens, position |-> 0, pc |-> "stylesheet",
                      result |-> <<>>])

StylesheetIteration ==
    /\ parser.pc = "stylesheet"
    /\ ~is_eof(parser)
    /\ ParserStep("stylesheet_iteration", parse_stylesheet_iteration(parser))

StylesheetReturn ==
    /\ parser.pc = "stylesheet"
    /\ is_eof(parser)
    /\ ParserStep("return", [parser EXCEPT !.pc = "returned",
                                           !.result = <<Ok("Stylesheet")>>])

DeclarationsIteration ==
    /\ parser.pc = "declarations"
    /\ ~is_eof(parser)
    /\ current_token(parser).token_type # "RightCurlyBracket"
    /\ ParserStep("declarations_iteration", declarations_iteration(parser))

DeclarationsEnd ==
    /\ parser.pc = "declarations"
    /\ is_eof(parser) \/ current_token(parser).token_type = "RightCurlyBracket"
    /\ ParserStep("declarations_end", declarations_end(parser))

ParserNext ==
    \/ ParseStylesheet
    \/ StylesheetIteration
    \/ StylesheetReturn
    \/ DeclarationsIteration
    \/ DeclarationsEnd

SpecParser == ParserInit /\ [][ParserNext]_vars

\* C23: parse_stylesheet terminates on every text, because every pass of
\* its loop and of the declarations loop of parse_qualified_rule either
\* returns from parse_stylesheet or leaves the cursor further on than it
\* found it, malformed declaration blocks and the blocks of an @media rule
\* included.
C23_EveryIterationAdvancesTheCursor ==
    call.op \in {"stylesheet_iteration", "declarations_iteration"}
    => \/ parser.pc = "returned"
       \/ parser.position > call.before

====
